---- MODULE Spec2Model ----
(***************************************************************************)
(* State-machine model of the llm-gate account pool: the chat dispatch     *)
(* walk of MultiQwenProvider, the per-account QwenProvider call, the       *)
(* QuotaManager bookkeeping, and the token refresh of QwenAuthManager      *)
(* over the blob store's lock.                                             *)
(*                                                                         *)
(* Three specifications share the module and its variables:                *)
(*   Spec         one instance's pool serving chat requests one at a time, *)
(*                with admin removals, rescans and the clock;              *)
(*   SpecQuota    the quota manager under calls of concurrent requests,    *)
(*                with its write-behind flush to the relational store;     *)
(*   SpecRefresh  two refresh callers of one account over the blob store   *)
(*                lock and the token endpoint.                             *)
(* Each specification leaves the variables it does not use at their        *)
(* initial value.                                                          *)
(***************************************************************************)
EXTENDS Integers, Sequences, FiniteSets, TLC

(***************************************************************************)
(* Bounds of the model.                                                    *)
(***************************************************************************)
MaxEvents == 3          \* requests, clock advances and admin actions of a behaviour
MaxLimit == 1           \* largest configured daily / rpm limit (0 = off)
MaxCalls == 3           \* quota manager calls of a behaviour (SpecQuota)
MaxRefreshes == 1       \* refreshToken calls per caller (SpecRefresh)
MaxLapses == 1          \* lock entries the blob store expires (SpecRefresh)
MaxPatches == 1         \* alias requests of the admin route (SpecStore)
MaxStreamEvents == 3    \* events of an upstream response (SpecStream)
MaxAlertTicks == 3      \* runs of runBusinessAlerts (SpecAlerts)
MaxTicks == 2           \* clock advances during one request (SpecAttempt)

(***************************************************************************)
(* Program constants.                                                      *)
(***************************************************************************)
errorCooldownMs == 15000
usageCacheTtlMs == 5000
scanIntervalMs == 30000
MinuteMs == 60000
DayMs == 86400000
BEIJING_OFFSET_MS == 8 * 60 * 60 * 1000
refreshWindowMs == 300000
alertThresholdPercent == 80
recoveryMarginPercent == 5
maxRetries == 30

Ids == {"A", "B"}                   \* account ids (canonical credential keys)
Dispatchers == {"d1", "d2"}         \* requests of one instance
Serial == {"d1"}                    \* the request in flight in the pool specification
Kinds == {"chat", "search"}
Callers == {"c1", "c2"}             \* refresh callers of one account

(***************************************************************************)
(* Helpers: finite maps with summed counts, sequences.                     *)
(***************************************************************************)
Get(f, k) == IF k \in DOMAIN f THEN f[k] ELSE 0

AddTo(f, k, n) ==
    [x \in (DOMAIN f) \cup {k} |-> IF x = k THEN Get(f, k) + n ELSE f[x]]

MergeCounts(f, g) ==
    [x \in (DOMAIN f) \cup (DOMAIN g) |-> Get(f, x) + Get(g, x)]

EmptyMap == [x \in {} |-> 0]

Range(s) == {s[i] : i \in 1..Len(s)}

RECURSIVE FilterOut(_, _)
FilterOut(s, x) ==
    IF s = <<>> THEN <<>>
    ELSE IF Head(s) = x THEN FilterOut(Tail(s), x)
         ELSE <<Head(s)>> \o FilterOut(Tail(s), x)

RECURSIVE Dedup(_)
Dedup(s) ==
    IF s = <<>> THEN <<>>
    ELSE LET r == Dedup(SubSeq(s, 1, Len(s) - 1))
             x == s[Len(s)]
         IN IF x \in Range(r) THEN r ELSE Append(r, x)

\* s.includes(sub) on texts held as sequences of words
Includes(s, sub) ==
    \E i \in 0..(Len(s) - Len(sub)) :
        \A j \in 1..Len(sub) : s[i + j] = sub[j]

ToLowerWord(w) ==
    CASE w = "Insufficient_Quota" -> "insufficient_quota"
      [] w = "Free" -> "free"
      [] w = "Allocated" -> "allocated"
      [] w = "QUOTA" -> "quota"
      [] w = "Exceeded" -> "exceeded"
      [] w = "Too" -> "too"
      [] w = "Many" -> "many"
      [] w = "Requests" -> "requests"
      [] OTHER -> w

\* a text taken as it is
KeepCase(s) == s

ToLowerCase(s) == [i \in 1..Len(s) |-> ToLowerWord(s[i])]

(***************************************************************************)
(* ClockAndBuckets.                                                        *)
(***************************************************************************)
getBeijingDate(t) == (t + BEIJING_OFFSET_MS) \div DayMs

getBeijingMinuteBucket(t) == (t + BEIJING_OFFSET_MS) \div MinuteMs


VARIABLES
    now,            \* Date.now() of the instance, in ms
    events,         \* requests, clock advances, admin actions and calls so far
    registry,       \* providers table: sequence of ids in listing order
    kvKeys,         \* account ids that have a credential entry in the blob store
    authExpired,    \* per account: its refresh token is rejected by the token endpoint
    providers,      \* MultiQwenProvider.providers: sequence of ids
    currentIndex,   \* MultiQwenProvider.currentIndex
    lastScanAt,     \* MultiQwenProvider.lastScanAt
    scan,           \* the in-flight scan (scanPromise) and its position
    pstate,         \* per account: QwenProvider runtime state
    limits,         \* QuotaManager limits (setLimits)
    quota,          \* QuotaManager in-memory state
    db,             \* relational store: usage_stats, request_audit_minute, global_monitor
    disp,           \* per request: position and locals of handleChatCompletion
    lastCall,       \* the latest quota-manager call: what it was and what it returned
    admitted,       \* per account: chat requests admitted and not yet attempted
    stored,         \* blob store: the credential under the canonical key
    lockEntry,      \* blob store: value under lock:token_refresh:<credsKey>
    issued,         \* token endpoint: credentials issued so far, and the refresh
                    \* token it honours
    rf,             \* per caller: position and locals of refreshToken
    lapses,         \* lock entries expired by the blob store so far
    legacy,         \* blob store: the credential under the './'-prefixed key
    mgr,            \* per caller: its QwenAuthManager's legacyChecked, and the
                    \* keys set by its refreshToken call in hand
    patch,          \* the PATCH /api/providers/alias request in hand
    kvSets,         \* blob store: credential set calls so far, and the last one
    att,            \* one handleChatCompletion call of an account: its position, the
                    \* credential's expiry_date, and the refreshToken calls so far
    sse,            \* one streamed response: the upstream bytes still to come, the
                    \* transformer's buffer and lastContent, and what it enqueued
    alert           \* runBusinessAlerts: the state under alert_state_v1, and the
                    \* latest tick's evaluation and webhook sends

clockVars == <<now, events>>

poolVars == <<registry, kvKeys, authExpired, providers, currentIndex, lastScanAt,
              scan, pstate, disp>>

quotaVars == <<limits, quota, db, lastCall, admitted>>

refreshVars == <<stored, lockEntry, issued, rf, lapses>>

storeVars == <<legacy, mgr, patch, kvSets>>

streamVars == <<sse>>

attemptVars == <<att>>

alertVars == <<alert>>

vars == <<clockVars, poolVars, quotaVars, refreshVars, storeVars, streamVars, attemptVars,
          alertVars>>

(***************************************************************************)
(* QuotaManager.  `q` is the manager's in-memory state:                    *)
(*   rpmData[id][kind]   = [minute, count]   (minute -1: no entry yet)     *)
(*   usageCache[id]      = [present, expiresAt, usage[kind]]; loadedAt is  *)
(*                         the time of its last load from the store (-1:   *)
(*                         never loaded), kept for the properties          *)
(*   pendingUsageWrites  : <<date, id, kind>> -> count                     *)
(*   pendingAuditWrites  : <<minuteBucket, id, kind, outcome>> -> count    *)
(*   globalBuffer        : <<kind, counter>> -> count                      *)
(*   flushChain          : flushToDB runs queued on the chain              *)
(*   inflight            : the batch of the flushToDB run awaiting the     *)
(*                         store (busy), taken from the pending maps       *)
(* `d` is the relational store (present: a database is bound).  `t` is     *)
(* Date.now() of the call.                                                 *)
(***************************************************************************)
NoBucket == [minute |-> -1, count |-> 0]

NoCache == [present |-> FALSE, expiresAt |-> 0, usage |-> [k \in Kinds |-> 0],
            loadedAt |-> -1]

NoBatch == [busy |-> FALSE, usage |-> EmptyMap, audit |-> EmptyMap,
            global |-> EmptyMap]

InitQuota ==
    [rpmData |-> [i \in Ids |-> [k \in Kinds |-> NoBucket]],
     usageCache |-> [i \in Ids |-> NoCache],
     pendingUsageWrites |-> EmptyMap,
     pendingAuditWrites |-> EmptyMap,
     globalBuffer |-> EmptyMap,
     flushChain |-> 0,
     inflight |-> NoBatch]

InitDb(present) ==
    [present |-> present, usage_stats |-> EmptyMap,
     request_audit_minute |-> EmptyMap, global_monitor |-> EmptyMap]

getRpmCount(q, id, kind, t) ==
    LET currentMinute == t \div MinuteMs
        entry == q.rpmData[id][kind]
    IN IF entry.minute # currentMinute THEN 0 ELSE entry.count

bumpRpm(q, id, kind, t) ==
    LET currentMinute == t \div MinuteMs
        created == IF \A k \in Kinds : q.rpmData[id][k].minute = -1
                   THEN [k \in Kinds |-> [minute |-> currentMinute, count |-> 0]]
                   ELSE q.rpmData[id]
        bucket == IF created[kind].minute # currentMinute
                  THEN [minute |-> currentMinute, count |-> 0]
                  ELSE created[kind]
    IN [q EXCEPT !.rpmData[id] =
            [created EXCEPT ![kind] = [bucket EXCEPT !.count = @ + 1]]]

Max0(n) == IF n < 0 THEN 0 ELSE n

mergeUsageToCache(q, id, kind, delta, t) ==
    LET cached == q.usageCache[id]
        usage == IF cached.present THEN cached.usage ELSE [k \in Kinds |-> 0]
    IN [q EXCEPT !.usageCache[id] =
            [present |-> TRUE,
             expiresAt |-> t + usageCacheTtlMs,
             usage |-> [usage EXCEPT ![kind] = Max0(@ + delta)],
             loadedAt |-> cached.loadedAt]]

\* a buffer that keeps the latest count of a key instead of the sum
bufferUsageOverwrite(q, id, kind, count, t) ==
    [q EXCEPT !.pendingUsageWrites =
        [x \in (DOMAIN @) \cup {<<getBeijingDate(t), id, kind>>} |->
            IF x = <<getBeijingDate(t), id, kind>> THEN count ELSE @[x]]]

bufferUsage(q, id, kind, count, t) ==
    [q EXCEPT !.pendingUsageWrites =
        AddTo(@, <<getBeijingDate(t), id, kind>>, count)]

bufferAudit(q, id, kind, outcome, count, t) ==
    [q EXCEPT !.pendingAuditWrites =
        AddTo(@, <<getBeijingMinuteBucket(t), id, kind, outcome>>, count)]

\* a counter bumped by one more than asked
bumpGlobalTwice(q, key, count) ==
    [q EXCEPT !.globalBuffer = AddTo(@, key, count + 1)]

bumpGlobal(q, key, count) ==
    [q EXCEPT !.globalBuffer = AddTo(@, key, count)]

loadUsageFromDb(d, id, t) ==
    IF ~d.present THEN [k \in Kinds |-> 0]
    ELSE [k \in Kinds |-> Get(d.usage_stats, <<getBeijingDate(t), id, k>>)]

\* returns the usage read and the manager state with the cache refreshed
getUsageSnapshot(q, d, id, t) ==
    LET cached == q.usageCache[id]
    IN IF cached.present /\ cached.expiresAt > t
       THEN [usage |-> cached.usage, quota |-> q]
       ELSE LET usage == loadUsageFromDb(d, id, t)
            IN [usage |-> usage,
                quota |-> [q EXCEPT !.usageCache[id] =
                              [present |-> TRUE,
                               expiresAt |-> t + usageCacheTtlMs,
                               usage |-> usage,
                               loadedAt |-> t]]]

\* a flushToDB run started at once, beside the chain
flushBufferedWritesUnchained(q, d) ==
    IF ~d.present THEN q
    ELSE [q EXCEPT !.flushChain = @ + 1,
                   !.pendingUsageWrites = EmptyMap,
                   !.pendingAuditWrites = EmptyMap,
                   !.globalBuffer = EmptyMap,
                   !.inflight = [busy |-> TRUE,
                                 usage |-> q.pendingUsageWrites,
                                 audit |-> q.pendingAuditWrites,
                                 global |-> q.globalBuffer]]

\* chains one more flushToDB run onto flushChain
flushBufferedWrites(q, d) ==
    IF ~d.present THEN q ELSE [q EXCEPT !.flushChain = @ + 1]

PendingEmpty(q) ==
    /\ DOMAIN q.pendingUsageWrites = {}
    /\ DOMAIN q.pendingAuditWrites = {}
    /\ DOMAIN q.globalBuffer = {}

\* flushToDB up to its await: the pending maps are snapshotted and cleared; an
\* empty batch ends the run at once
flushToDBTake(q) ==
    IF PendingEmpty(q)
    THEN [q EXCEPT !.flushChain = @ - 1]
    ELSE [q EXCEPT !.pendingUsageWrites = EmptyMap,
                   !.pendingAuditWrites = EmptyMap,
                   !.globalBuffer = EmptyMap,
                   !.inflight = [busy |-> TRUE,
                                 usage |-> q.pendingUsageWrites,
                                 audit |-> q.pendingAuditWrites,
                                 global |-> q.globalBuffer]]

\* the store answers db.batch: the upserts are applied, or the batch failed
\* and is dropped
flushToDBDone(q, d, batchOk) ==
    [quota |-> [q EXCEPT !.inflight = NoBatch, !.flushChain = @ - 1],
     db |-> IF batchOk
            THEN [d EXCEPT
                    !.usage_stats = MergeCounts(@, q.inflight.usage),
                    !.request_audit_minute = MergeCounts(@, q.inflight.audit),
                    !.global_monitor = MergeCounts(@, q.inflight.global)]
            ELSE d]

\* `await this.flushChain`: the chain runs until it is empty
RECURSIVE awaitFlushChain(_, _, _)
awaitFlushChain(q, d, batchOk) ==
    IF q.inflight.busy
    THEN LET r == flushToDBDone(q, d, batchOk)
         IN awaitFlushChain(r.quota, r.db, batchOk)
    ELSE IF q.flushChain > 0 THEN awaitFlushChain(flushToDBTake(q), d, batchOk)
    ELSE [quota |-> q, db |-> d]

incrementUsage(q, d, id, kind, t) ==
    LET q1 == bumpRpm(q, id, kind, t)
        q2 == bufferUsage(q1, id, kind, 1, t)
        q3 == bufferAudit(q2, id, kind, <<"success", "">>, 1, t)
        q4 == bumpGlobal(q3, <<kind, "total">>, 1)
        q5 == bumpGlobal(q4, <<kind, "success">>, 1)
        q6 == mergeUsageToCache(q5, id, kind, 1, t)
    IN flushBufferedWrites(q6, d)

\* a failure booked without its audit row
recordFailureUnaudited(q, d, id, kind, reason, t) ==
    LET q1 == bumpRpm(q, id, kind, t)
        q2 == bufferUsage(q1, id, kind, 1, t)
        q4 == bumpGlobal(q2, <<kind, "total">>, 1)
        q5 == bumpGlobal(q4, <<kind, "error">>, 1)
        q6 == mergeUsageToCache(q5, id, kind, 1, t)
    IN flushBufferedWrites(q6, d)

recordFailure(q, d, id, kind, reason, t) ==
    LET q1 == bumpRpm(q, id, kind, t)
        q2 == bufferUsage(q1, id, kind, 1, t)
        q3 == bufferAudit(q2, id, kind, <<"error", reason>>, 1, t)
        q4 == bumpGlobal(q3, <<kind, "total">>, 1)
        q5 == bumpGlobal(q4, <<kind, "error">>, 1)
        q6 == mergeUsageToCache(q5, id, kind, 1, t)
    IN flushBufferedWrites(q6, d)

\* a rejection booked as a served request
recordLimitHitAsSuccess(q, d, id, kind, reason, t) == incrementUsage(q, d, id, kind, t)

recordLimitHit(q, d, id, kind, reason, t) ==
    LET q1 == bumpRpm(q, id, kind, t)
        q2 == bufferUsage(q1, id, kind, 1, t)
        q3 == bufferAudit(q2, id, kind, <<"limited", reason>>, 1, t)
        q4 == bumpGlobal(q3, <<kind, "total">>, 1)
        q5 == bumpGlobal(q4, <<kind, "rate_limited">>, 1)
        q6 == mergeUsageToCache(q5, id, kind, 1, t)
    IN flushBufferedWrites(q6, d)

\* returns allowed, reason and the manager state after the call
checkQuota(q, d, lim, id, kind, t) ==
    LET snap == getUsageSnapshot(q, d, id, t)
        dailyUsed == snap.usage[kind]
        rpmUsed == getRpmCount(snap.quota, id, kind, t)
        dailyLimit == lim[kind].daily
        rpmLimit == lim[kind].rpm
    IN IF dailyLimit > 0 /\ dailyUsed >= dailyLimit
       THEN [allowed |-> FALSE, reason |-> "daily",
             quota |-> recordLimitHit(snap.quota, d, id, kind, "daily", t)]
       ELSE IF rpmLimit > 0 /\ rpmUsed >= rpmLimit
       THEN [allowed |-> FALSE, reason |-> "rpm",
             quota |-> recordLimitHit(snap.quota, d, id, kind, "rpm", t)]
       ELSE [allowed |-> TRUE, reason |-> "", quota |-> snap.quota]


(***************************************************************************)
(* QwenProvider.  An attempt against the upstream ends in a response       *)
(* (status, body) or in a thrown error (message).  Texts are sequences of  *)
(* words.                                                                  *)
(***************************************************************************)
Resp(status, body) == [t |-> "resp", status |-> status, body |-> body, msg |-> <<>>]

Throw(msg) == [t |-> "throw", status |-> 0, body |-> <<>>, msg |-> msg]

MsgAuthExpired == <<"AUTH_EXPIRED">>
MsgTimeout == <<"Upstream", "Timeout", "(60s)">>
MsgQuotaExceeded == <<"Quota", "exceeded", "(Qwen", "free", "tier)">>
MsgRateLimited == <<"Rate", "limited">>
MsgUpstreamError(status) ==
    <<"Upstream", "Error:", CASE status = 401 -> "401" [] status = 429 -> "429"
                              [] status = 500 -> "500" [] OTHER -> "0">>

UpstreamReason(status) ==
    CASE status = 401 -> "upstream_401"
      [] status = 429 -> "upstream_429"
      [] status = 500 -> "upstream_500"
      [] OTHER -> "upstream_0"

Bodies429 == {<<"code:", "insufficient_quota">>,
              <<"Free", "Allocated", "QUOTA", "Exceeded">>,
              <<"Too", "Many", "Requests">>}

\* what the upstream can answer to an attempt of an account
Answers == {Resp(200, <<>>), Resp(401, <<>>), Resp(500, <<>>)}
              \cup {Resp(429, b) : b \in Bodies429}

FirstOutcomes(expired) ==
    IF expired THEN {Throw(MsgAuthExpired), Resp(401, <<>>)}
    ELSE Answers

\* the attempt after the forced refresh
SecondOutcomes(expired) ==
    IF expired THEN {Throw(MsgAuthExpired)}
    ELSE {Resp(200, <<>>), Resp(500, <<>>)}

ResponseOk(status) == status >= 200 /\ status <= 299

InitProviderState(expired) ==
    [status |-> IF expired THEN "error" ELSE "active", retryAfterTs |-> 0]

canAttempt(ps, t) == t >= ps.retryAfterTs

IsQuotaBody(body) ==
    LET bodyLower == ToLowerCase(body)
    IN Includes(bodyLower, <<"insufficient_quota">>)
         \/ Includes(bodyLower, <<"free", "allocated", "quota", "exceeded">>)

\* handleChatCompletion of one account: r1 is the outcome of attemptRequest(false),
\* r2 that of attemptRequest(true), made only after a 401.  Returns the provider's
\* state, the quota manager's state, and either ok or the thrown message.
handleChat(ps, q, d, id, r1, r2, t) ==
    LET final == IF r1.t = "resp" /\ r1.status = 401 THEN r2 ELSE r1
    IN IF final.t = "resp" /\ ResponseOk(final.status)
       THEN [ok |-> TRUE, msg |-> <<>>, reason |-> "success", retried |-> r1.t = "resp" /\ r1.status = 401,
             status |-> final.status, body |-> final.body,
             ps |-> [ps EXCEPT !.status = "active", !.retryAfterTs = 0],
             quota |-> incrementUsage(q, d, id, "chat", t)]
       ELSE IF final.t = "resp"
       THEN LET quotaBody == final.status = 429 /\ IsQuotaBody(final.body)
                reason == IF quotaBody THEN "upstream_quota_exceeded"
                          ELSE UpstreamReason(final.status)
                msg == IF quotaBody THEN MsgQuotaExceeded
                       ELSE IF final.status = 429 THEN MsgRateLimited
                       ELSE MsgUpstreamError(final.status)
            IN [ok |-> FALSE, msg |-> msg, reason |-> reason, retried |-> r1.t = "resp" /\ r1.status = 401,
                status |-> final.status, body |-> final.body,
                ps |-> [ps EXCEPT !.status = "error",
                                  !.retryAfterTs = t + errorCooldownMs],
                quota |-> recordFailure(q, d, id, "chat", reason, t)]
       ELSE LET isAuth == final.msg = MsgAuthExpired
                reason == IF isAuth THEN "auth_expired" ELSE "runtime_error"
            IN [ok |-> FALSE, msg |-> final.msg, reason |-> reason, retried |-> r1.t = "resp" /\ r1.status = 401,
                status |-> 0, body |-> <<>>,
                ps |-> [ps EXCEPT !.status = IF isAuth THEN "error" ELSE @,
                                  !.retryAfterTs = t + errorCooldownMs],
                quota |-> recordFailure(q, d, id, "chat", reason, t)]

(***************************************************************************)
(* MultiQwenProvider: the chat dispatch walk.  A dispatcher's record holds *)
(* the locals of handleChatCompletion; `walk` logs, per candidate visited, *)
(* whether it was in cooldown, whether it was skipped or sent on to        *)
(* admission, and how its attempt ended: "limited" at admission, or the    *)
(* upstream's final answer with the outcome the provider recorded.         *)
(***************************************************************************)
IdleDispatch ==
    [pc |-> "idle", availableProviders |-> 0, startIndex |-> 0, attempt |-> 0,
     providerIndex |-> 0, id |-> "", triedCount |-> 0, authExpiredCount |-> 0,
     rateLimitedCount |-> 0, quotaExceededCount |-> 0, quotaBlockedCount |-> 0,
     result |-> "none", walk |-> <<>>]

isAuthErrorMessage(message) ==
    Includes(message, <<"AUTH_EXPIRED">>)
      \/ Includes(message, <<"Unauthorized", "(Please", "Login)">>)

\* the response after the walk found no provider that returned
aggregateResult(dd) ==
    IF dd.triedCount = 0
    THEN IF dd.authExpiredCount = dd.availableProviders THEN "401 All providers unauthorized"
         ELSE IF dd.quotaBlockedCount = dd.availableProviders
         THEN "429 All providers quota limited"
         ELSE "503 No available providers"
    ELSE IF dd.authExpiredCount = dd.triedCount THEN "401 All providers unauthorized"
    ELSE IF dd.rateLimitedCount = dd.triedCount THEN "429 All providers rate limited"
    ELSE IF dd.quotaExceededCount = dd.triedCount THEN "429 All providers quota exceeded"
    ELSE "500 All providers failed"

\* the circuit-breaker test without its position clause
skipInCooldown(ps, attempt, n, t) == ~canAttempt(ps, t)

\* the circuit-breaker test of the loop head
skipCandidate(ps, attempt, n, t) == ~canAttempt(ps, t) /\ attempt < n - 1

\* the loop from its head at dd.attempt up to the next await (checkQuota), the
\* end of the walk, or the lookup of a provider the list no longer holds
RECURSIVE loopHead(_, _, _, _)
loopHead(dd, provs, pst, t) ==
    IF dd.attempt >= dd.availableProviders
    THEN [dd EXCEPT !.pc = "done", !.result = aggregateResult(dd)]
    ELSE LET providerIndex == (dd.startIndex + dd.attempt) % dd.availableProviders
         IN IF providerIndex + 1 > Len(provs)
            THEN [dd EXCEPT !.pc = "done", !.result = "TypeError"]
            ELSE LET id == provs[providerIndex + 1]
                     cool == ~canAttempt(pst[id], t)
                 IN IF skipCandidate(pst[id], dd.attempt, dd.availableProviders, t)
                    THEN loopHead([dd EXCEPT !.attempt = @ + 1,
                                     !.walk = Append(@, [attempt |-> dd.attempt,
                                        id |-> id, cooldown |-> cool, step |-> "skip",
                                        status |-> 0, body |-> <<>>, reason |-> ""])],
                                  provs, pst, t)
                    ELSE [dd EXCEPT !.pc = "quota", !.providerIndex = providerIndex,
                                    !.id = id,
                                    !.walk = Append(@, [attempt |-> dd.attempt,
                                        id |-> id, cooldown |-> cool, step |-> "admit",
                                        status |-> 0, body |-> <<>>, reason |-> ""])]

\* handleChatCompletion from the capture of the list's length
enterDispatch(provs, pst, cur, t) ==
    IF Len(provs) = 0
    THEN [IdleDispatch EXCEPT !.pc = "done", !.result = "500 No Qwen providers configured"]
    ELSE loopHead([IdleDispatch EXCEPT !.availableProviders = Len(provs),
                                       !.startIndex = cur], provs, pst, t)

\* the log entry of the candidate in hand is completed
noteOutcome(dd, status, body, reason) ==
    [dd EXCEPT !.walk[Len(dd.walk)] =
        [@ EXCEPT !.status = status, !.body = body, !.reason = reason]]

\* the index the walk stores once admission let the candidate through
advanceIndex(attempt, providerIndex, n, cur) ==
    IF attempt = 0 THEN (providerIndex + 1) % n ELSE cur

\* the catch block of the walk: classify the thrown message
classifyError(dd, message) ==
    [dd EXCEPT !.authExpiredCount = IF isAuthErrorMessage(message) THEN @ + 1 ELSE @,
               !.quotaExceededCount =
                    IF Includes(message, <<"Quota", "exceeded">>) THEN @ + 1 ELSE @,
               !.rateLimitedCount =
                    IF Includes(message, <<"Rate", "limited">>) THEN @ + 1 ELSE @]


(***************************************************************************)
(* MultiQwenProvider: the pool list, removal and scans.                    *)
(***************************************************************************)
IdOrder == <<"A", "B">>             \* key order of a blob-store listing

staticAuthFiles == <<>>

RECURSIVE KeepIn(_, _)
KeepIn(s, S) ==
    IF s = <<>> THEN <<>>
    ELSE IF Head(s) \in S THEN <<Head(s)>> \o KeepIn(Tail(s), S)
         ELSE KeepIn(Tail(s), S)

listPrefix(keys) == KeepIn(IdOrder, keys)

clampIndex(cur, provs) == IF cur >= Len(provs) THEN 0 ELSE cur

\* the list and index after removeProvider's filter
removeProvider(provs, cur, id) ==
    LET kept == FilterOut(provs, id)
    IN [providers |-> kept, currentIndex |-> clampIndex(cur, kept)]

needsFullScan(mode, registryIds) ==
    mode = "full" \/ (Len(registryIds) = 0 /\ Len(staticAuthFiles) = 0)

allActiveKeys(mode, registryIds, keys) ==
    Dedup(staticAuthFiles \o registryIds
            \o (IF needsFullScan(mode, registryIds) THEN listPrefix(keys) ELSE <<>>))

\* ProviderRegistry.listProviderIds: the table's ids; an empty table is refilled
\* with the account ids found in the usage and audit rows; a query that fails
\* is logged and answered with no ids.  Returns the ids and the table after
\* the call.
listProviderIds(reg, d, queryOk) ==
    IF ~d.present \/ ~queryOk THEN [ids |-> <<>>, registry |-> reg]
    ELSE IF Len(reg) > 0 THEN [ids |-> reg, registry |-> reg]
    ELSE LET found == {k[2] : k \in DOMAIN d.usage_stats}
                        \cup {k[2] : k \in DOMAIN d.request_audit_minute}
             ids == KeepIn(IdOrder, found)
         IN [ids |-> ids, registry |-> ids]

\* scanPromise and the locals of scanAndLoadProviders; `awaited` is the mode of
\* a manualRescan call that awaits this scan ("none" when there is none)
IdleScan ==
    [pc |-> "idle", mode |-> "light", registryIds |-> <<>>, newProviders |-> <<>>,
     awaited |-> "none"]

\* forceRescan: a scan in flight is awaited, otherwise one is started
forceRescan(sc, mode) ==
    IF sc.pc # "idle" THEN sc ELSE [IdleScan EXCEPT !.pc = "read", !.mode = mode]

\* manualRescan: forceRescan(mode), the caller awaiting the scan it returns on
manualRescan(sc, mode) == [forceRescan(sc, mode) EXCEPT !.awaited = mode]

ensureFreshPoolScans(t, lastScan) == ~(t - lastScan < scanIntervalMs)

(***************************************************************************)
(* Initial states.  Every specification starts from a booted instance:     *)
(* initialize() has run, so the list is the light scan of the registry.    *)
(***************************************************************************)
Registries == {<<"A", "B">>}

Expiries == {{}, {"A"}, {"A", "B"}}

DefaultSearchLimits == [daily |-> 0, rpm |-> 0]

Credential(n, r) == [access_token |-> n, refresh_token |-> r]

NoLock == <<>>

NoCredential == [access_token |-> -1, refresh_token |-> -1]

NoResult == [kind |-> "none", creds |-> NoCredential, msg |-> ""]

Returned(creds) == [kind |-> "credential", creds |-> creds, msg |-> ""]

Thrown(msg) == [kind |-> "error", creds |-> NoCredential, msg |-> msg]

\* a caller of refreshToken: its QwenAuthManager's memoryCredentials, and the
\* argument and locals of the call in hand; `updated` notes that another
\* caller's refresh saved a credential while this one was in waitForTokenUpdate
IdleCaller ==
    [pc |-> "idle", memoryCredentials |-> [access_token |-> 0, refresh_token |-> 0],
     refreshToken |-> 0, lockToken |-> NoLock, creds |-> NoCredential, i |-> 0,
     result |-> NoResult, calls |-> 0, sent |-> FALSE, updated |-> FALSE]

\* a QwenAuthManager's legacyChecked flag, and the keys its refreshToken call
\* in hand has set so far
IdleManager == [legacyChecked |-> FALSE, sets |-> <<>>]

\* the PATCH /api/providers/alias handler: its id parameter and the data it read
IdlePatch == [pc |-> "idle", id |-> "", data |-> NoCredential, count |-> 0]

\* no handleChatCompletion call is being followed
IdleAttempt == [pc |-> "idle", expiry_date |-> 0, forceRefresh |-> FALSE, refreshes |-> 0,
                checkedAt |-> 0, checkedExpiry |-> 0, refreshed |-> FALSE,
                result |-> ""]

\* no response is being streamed
IdleStream == [upstream |-> <<>>, buffer |-> <<>>, lastContent |-> "", out |-> <<>>,
               pc |-> "closed"]

\* an EventState that was never saved: { active: false }, fingerprint undefined
NoEvent == [active |-> FALSE, fingerprint |-> <<"undefined">>]

\* no alert run yet: nothing under alert_state_v1, nothing evaluated or sent
IdleAlert ==
    [state |-> [auth |-> NoEvent, quota |-> NoEvent],
     bad |-> {}, percent |-> 0, sends |-> <<>>, completed |-> TRUE,
     quotaOpen |-> FALSE, ticks |-> 0]

\* no credential set call yet
NoSet == [n |-> 0, by |-> "", key |-> ""]

NoCall == [n |-> 0, op |-> "none", id |-> "", kind |-> "", allowed |-> TRUE,
           reason |-> "", at |-> 0, retried |-> FALSE]

ClockInit ==
    /\ now = 0
    /\ events = 0

PoolIdle ==
    /\ scan = IdleScan
    /\ currentIndex = 0
    /\ lastScanAt = 0
    /\ disp = [d \in Dispatchers |-> IdleDispatch]
    /\ providers = registry
    /\ kvKeys = Range(registry)
    /\ pstate = [i \in Ids |-> InitProviderState(authExpired[i])]

QuotaIdle ==
    /\ quota = InitQuota
    /\ db = InitDb(TRUE)
    /\ lastCall = NoCall
    /\ admitted = [i \in Ids |-> 0]

StreamIdle == sse = IdleStream

AttemptIdle == att = IdleAttempt

AlertIdle == alert = IdleAlert

RefreshIdle ==
    /\ stored = Credential(0, 0)
    /\ lockEntry = NoLock
    /\ issued = [n |-> 0, refresh_token |-> 0]
    /\ legacy = NoCredential
    /\ mgr = [c \in Callers |-> IdleManager]
    /\ patch = IdlePatch
    /\ kvSets = NoSet
    /\ rf = [c \in Callers |-> IdleCaller]
    /\ lapses = 0

PoolInit ==
    /\ ClockInit
    /\ registry \in Registries
    /\ \E e \in Expiries : authExpired = [i \in Ids |-> i \in e]
    /\ PoolIdle
    /\ \E r \in {0, MaxLimit} :
          limits = [chat |-> [daily |-> 0, rpm |-> r], search |-> DefaultSearchLimits]
    /\ QuotaIdle
    /\ RefreshIdle
    /\ StreamIdle
    /\ AttemptIdle
    /\ AlertIdle

(***************************************************************************)
(* Actions of the pool specification.  Requests are served one at a time,  *)
(* and the quota manager's flush is taken with the call that queued it.    *)
(***************************************************************************)
\* a request arrives: ensureFreshPool, then the walk up to its first await
StartDispatch(d) ==
    /\ disp[d].pc \in {"idle", "done"}
    /\ events < MaxEvents
    /\ events' = events + 1
    /\ IF ensureFreshPoolScans(now, lastScanAt)
       THEN /\ scan' = forceRescan(scan, "light")
            /\ disp' = [disp EXCEPT ![d] = [IdleDispatch EXCEPT !.pc = "scanwait"]]
       ELSE /\ disp' = [disp EXCEPT ![d] =
                          enterDispatch(providers, pstate, currentIndex, now)]
            /\ scan' = scan
    /\ UNCHANGED <<now, registry, kvKeys, authExpired, providers, currentIndex,
                   lastScanAt, pstate, quotaVars, refreshVars, storeVars, streamVars, attemptVars, alertVars>>

\* the awaited scan has finished: the walk starts
EnterDispatch(d) ==
    /\ disp[d].pc = "enter"
    /\ disp' = [disp EXCEPT ![d] = enterDispatch(providers, pstate, currentIndex, now)]
    /\ UNCHANGED <<clockVars, registry, kvKeys, authExpired, providers, currentIndex,
                   lastScanAt, scan, pstate, quotaVars, refreshVars, storeVars, streamVars, attemptVars, alertVars>>

\* checkQuota answers: a blocked candidate is counted and the walk goes on to
\* its next await; an admitted one is attempted
CheckQuota(d) ==
    /\ disp[d].pc = "quota"
    /\ \E dd \in {disp[d]} :
       \E r \in {checkQuota(quota, db, limits, dd.id, "chat", now)} :
       \E f \in {awaitFlushChain(r.quota, db, TRUE)} :
          /\ quota' = f.quota
          /\ db' = f.db
          /\ IF r.allowed
             THEN /\ currentIndex' = advanceIndex(dd.attempt, dd.providerIndex,
                                                  dd.availableProviders, currentIndex)
                  /\ disp' = [disp EXCEPT ![d] =
                                [dd EXCEPT !.pc = "call", !.triedCount = @ + 1]]
             ELSE /\ currentIndex' = currentIndex
                  /\ disp' = [disp EXCEPT ![d] =
                                loopHead([noteOutcome(dd, 0, <<>>, "limited")
                                            EXCEPT !.quotaBlockedCount = @ + 1,
                                                   !.attempt = @ + 1],
                                         providers, pstate, now)]
    /\ UNCHANGED <<clockVars, registry, kvKeys, authExpired, providers,
                   lastScanAt, scan, pstate, limits, lastCall, admitted, refreshVars,
                   storeVars, streamVars, attemptVars, alertVars>>

\* the attempted account's handleChatCompletion returns or throws; a throw is
\* classified and the walk goes on to its next await
ProviderCall(d) ==
    /\ disp[d].pc = "call"
    /\ \E dd \in {disp[d]} :
       \E r1 \in FirstOutcomes(authExpired[dd.id]) :
       \E r2 \in IF r1.t = "resp" /\ r1.status = 401
                  THEN SecondOutcomes(authExpired[dd.id]) ELSE {r1} :
       \E h \in {handleChat(pstate[dd.id], quota, db, dd.id, r1, r2, now)} :
       \E f \in {awaitFlushChain(h.quota, db, TRUE)} :
       \E noted \in {noteOutcome(dd, h.status, h.body, h.reason)} :
          /\ pstate' = [pstate EXCEPT ![dd.id] = h.ps]
          /\ quota' = f.quota
          /\ db' = f.db
          /\ disp' = [disp EXCEPT ![d] =
               IF h.ok
               THEN [noted EXCEPT !.pc = "done", !.result = "ok"]
               ELSE loopHead([classifyError(noted, h.msg) EXCEPT !.attempt = @ + 1],
                             providers, [pstate EXCEPT ![dd.id] = h.ps], now)]
    /\ UNCHANGED <<clockVars, registry, kvKeys, authExpired, providers, currentIndex,
                   lastScanAt, scan, limits, lastCall, admitted, refreshVars,
                   storeVars, streamVars, attemptVars, alertVars>>

\* the clock advances by a cooldown or by a minute
Tick ==
    /\ events < MaxEvents
    /\ events' = events + 1
    /\ \E dt \in {errorCooldownMs, MinuteMs} : now' = now + dt
    /\ UNCHANGED <<poolVars, quotaVars, refreshVars, storeVars, streamVars, attemptVars, alertVars>>

\* DELETE /api/providers: the credential and the registry row are deleted, the
\* pool drops the account, and a full rescan is requested
AdminDelete(id) ==
    /\ events < MaxEvents
    /\ events' = events + 1
    /\ id \in Range(providers)
    /\ kvKeys' = kvKeys \ {id}
    /\ registry' = FilterOut(registry, id)
    /\ LET r == removeProvider(providers, currentIndex, id)
       IN /\ providers' = r.providers
          /\ currentIndex' = r.currentIndex
    /\ scan' = manualRescan(scan, "full")
    /\ UNCHANGED <<now, authExpired, lastScanAt, pstate, disp, quotaVars, refreshVars,
                   storeVars, streamVars, attemptVars, alertVars>>

\* POST /api/providers/rescan
ManualRescan(mode) ==
    /\ events < MaxEvents
    /\ events' = events + 1
    /\ scan' = manualRescan(scan, mode)
    /\ UNCHANGED <<now, registry, kvKeys, authExpired, providers, currentIndex,
                   lastScanAt, pstate, disp, quotaVars, refreshVars, storeVars, streamVars, attemptVars, alertVars>>

\* another instance enrolls or deletes an account: the shared stores change
RemoteEnroll(id) ==
    /\ events < MaxEvents
    /\ events' = events + 1
    /\ id \notin Range(registry)
    /\ registry' = <<id>> \o registry
    /\ kvKeys' = kvKeys \cup {id}
    /\ UNCHANGED <<now, authExpired, providers, currentIndex, lastScanAt, scan,
                   pstate, disp, quotaVars, refreshVars, storeVars, streamVars, attemptVars, alertVars>>

RemoteDelete(id) ==
    /\ events < MaxEvents
    /\ events' = events + 1
    /\ id \in Range(registry)
    /\ registry' = FilterOut(registry, id)
    /\ kvKeys' = kvKeys \ {id}
    /\ UNCHANGED <<now, authExpired, providers, currentIndex, lastScanAt, scan,
                   pstate, disp, quotaVars, refreshVars, storeVars, streamVars, attemptVars, alertVars>>

\* scanAndLoadProviders reads the registry
ScanRead ==
    /\ scan.pc = "read"
    /\ \E queryOk \in BOOLEAN :
       \E r \in {listProviderIds(registry, db, queryOk)} :
          /\ scan' = [scan EXCEPT !.pc = "build", !.registryIds = r.ids]
          /\ registry' = r.registry
    /\ UNCHANGED <<clockVars, kvKeys, authExpired, providers, currentIndex,
                   lastScanAt, pstate, disp, quotaVars, refreshVars, storeVars, streamVars, attemptVars, alertVars>>

\* the scan's end: the list is replaced, the index clamped, the waiters resumed
installScan(newProviders) ==
    /\ providers' = newProviders
    /\ currentIndex' = clampIndex(currentIndex, newProviders)
    /\ lastScanAt' = now
    /\ scan' = IdleScan
    /\ disp' = [d \in Dispatchers |->
                  IF disp[d].pc = "scanwait" THEN [disp[d] EXCEPT !.pc = "enter"]
                  ELSE disp[d]]

\* the scan lists the blob store if it must and builds the new list from the
\* providers it holds now; new accounts are constructed and initialized
ScanBuild ==
    /\ scan.pc = "build"
    /\ LET keys == allActiveKeys(scan.mode, scan.registryIds, kvKeys)
           fresh == Range(keys) \ Range(providers)
       IN /\ pstate' = [i \in Ids |->
                          IF i \in fresh THEN InitProviderState(authExpired[i])
                          ELSE pstate[i]]
          /\ IF fresh = {}
             THEN installScan(keys)
             ELSE /\ scan' = [scan EXCEPT !.pc = "init", !.newProviders = keys]
                  /\ UNCHANGED <<providers, currentIndex, lastScanAt, disp>>
    /\ UNCHANGED <<clockVars, registry, kvKeys, authExpired, quotaVars, refreshVars,
                   storeVars, streamVars, attemptVars, alertVars>>

\* the new accounts' initialize() calls have settled
ScanInstall ==
    /\ scan.pc = "init"
    /\ installScan(scan.newProviders)
    /\ UNCHANGED <<clockVars, registry, kvKeys, authExpired, pstate, quotaVars,
                   refreshVars, storeVars, streamVars, attemptVars, alertVars>>

PoolNext ==
    \/ \E d \in Serial : StartDispatch(d)
    \/ \E d \in Serial : EnterDispatch(d)
    \/ \E d \in Serial : CheckQuota(d)
    \/ \E d \in Serial : ProviderCall(d)
    \/ Tick
    \/ \E id \in Ids : AdminDelete(id)
    \/ \E mode \in {"full"} : ManualRescan(mode)
    \/ \E id \in Ids : RemoteEnroll(id)
    \/ \E id \in Ids : RemoteDelete(id)
    \/ ScanRead
    \/ ScanBuild
    \/ ScanInstall

Init == PoolInit

Next == PoolNext

Spec == Init /\ [][Next]_vars

(***************************************************************************)
(* Properties of the pool specification.                                   *)
(***************************************************************************)
\* C3: after a successful chat dispatch, currentIndex is (i + 1) mod N, where i
\* is the index of the provider that succeeded and N the pool size, also when
\* that provider was not the first candidate.  Stated for a behaviour whose
\* only event is the request, so nothing else moves the index.
C3_IndexFollowsSucceeded ==
    \A d \in Dispatchers :
        (events = 1 /\ disp[d].pc = "done" /\ disp[d].result = "ok")
            => currentIndex = (disp[d].providerIndex + 1) % disp[d].availableProviders

\* C4: with a pool of N >= 1 providers, 0 <= currentIndex < N in every state.
C4_IndexInRange ==
    Len(providers) >= 1 => (0 <= currentIndex /\ currentIndex < Len(providers))

\* C8: when every account of the pool has auth-expired credentials, a chat
\* dispatch answers 401 'All providers unauthorized', whatever the cooldowns
\* and quota counters.  Stated for the pool as booted, its list untouched.
C8_AllExpiredUnauthorized ==
    \A d \in Dispatchers :
        (/\ disp[d].pc = "done"
         /\ \A i \in Ids : authExpired[i]
         /\ registry = <<"A", "B">> /\ providers = registry /\ scan = IdleScan
         /\ disp[d].availableProviders = 2)
            => disp[d].result = "401 All providers unauthorized"

\* C9: a candidate is skipped, with no admission check and no upstream call,
\* exactly when it is in cooldown and is not the last candidate of the walk.
C9_SkipIffCooldownNotLast ==
    \A d \in Dispatchers : \A k \in 1..Len(disp[d].walk) :
        LET e == disp[d].walk[k]
        IN /\ (e.step = "skip") <=>
                 (e.cooldown /\ e.attempt < disp[d].availableProviders - 1)
           /\ e.step = "skip" => (e.reason = "" /\ e.status = 0)
           /\ (e.step = "admit" /\ k < Len(disp[d].walk)) => e.reason # ""

\* a walk of two candidates, both in cooldown: the first was skipped, the last
\* was sent on to admission
C9_Witness ==
    \E d \in Dispatchers :
        /\ disp[d].availableProviders = 2
        /\ Len(disp[d].walk) = 2
        /\ disp[d].walk[1].cooldown /\ disp[d].walk[1].step = "skip"
        /\ disp[d].walk[2].cooldown /\ disp[d].walk[2].step = "admit"
        /\ disp[d].walk[2].reason # ""

QuotaExceededBodies == {<<"code:", "insufficient_quota">>,
                        <<"Free", "Allocated", "QUOTA", "Exceeded">>}

AttemptedEntries(dd) ==
    {k \in 1..Len(dd.walk) : dd.walk[k].reason \notin {"", "limited"}}

\* C10: an upstream 429 whose body contains insufficient_quota or 'free
\* allocated quota exceeded', in any letter case, is recorded as
\* error:upstream_quota_exceeded and not as error:upstream_429; when every
\* attempted account of a walk failed this way the dispatch answers
\* 429 'All providers quota exceeded'.
C10_QuotaExceededClassified ==
    \A d \in Dispatchers :
        LET dd == disp[d]
            quotaFail(e) == e.status = 429 /\ e.body \in QuotaExceededBodies
        IN /\ \A k \in 1..Len(dd.walk) :
                LET e == dd.walk[k]
                IN /\ quotaFail(e) =>
                        /\ e.reason = "upstream_quota_exceeded"
                        /\ \E key \in DOMAIN db.request_audit_minute :
                              /\ key[2] = e.id
                              /\ key[4] = <<"error", "upstream_quota_exceeded">>
                   /\ (e.status = 429 /\ ~quotaFail(e)) => e.reason = "upstream_429"
           /\ (/\ dd.pc = "done"
               /\ dd.result # "TypeError"
               /\ AttemptedEntries(dd) # {}
               /\ \A k \in AttemptedEntries(dd) : quotaFail(dd.walk[k]))
                 => dd.result = "429 All providers quota exceeded"

\* both accounts of a walk answered 429 with a quota body, one of them in
\* mixed case, and the dispatch ended
C10_Witness ==
    \E d \in Dispatchers :
        /\ disp[d].pc = "done"
        /\ Len(disp[d].walk) = 2
        /\ disp[d].walk[1].status = 429
        /\ disp[d].walk[1].body = <<"Free", "Allocated", "QUOTA", "Exceeded">>
        /\ disp[d].walk[2].status = 429
        /\ disp[d].walk[2].body = <<"code:", "insufficient_quota">>
        /\ disp[d].result = "429 All providers quota exceeded"

\* C11: a chat dispatch in which every attempted account fails with
\* AUTH_EXPIRED writes nothing to usage_stats; its only bookkeeping is one
\* error:auth_expired audit delta per attempted account.  Stated for a
\* behaviour whose only event is the request.
C11_AuthExpiredWritesNoUsage ==
    \A d \in Dispatchers :
        (/\ events = 1
         /\ disp[d].pc = "done"
         /\ Len(disp[d].walk) > 0
         /\ \A k \in 1..Len(disp[d].walk) : disp[d].walk[k].reason = "auth_expired")
            => /\ DOMAIN db.usage_stats = {}
               /\ DOMAIN quota.pendingUsageWrites = {}
               /\ \A k \in 1..Len(disp[d].walk) :
                     Get(db.request_audit_minute,
                         <<getBeijingMinuteBucket(now), disp[d].walk[k].id, "chat",
                           <<"error", "auth_expired">>>>) = 1

\* account x is deleted and not enrolled again: no credential, no registry
\* row, not in the pool and not in the lists of a scan in flight
Gone(x) ==
    /\ x \notin kvKeys
    /\ x \notin Range(registry)
    /\ x \notin Range(providers)
    /\ x \notin Range(scan.registryIds)
    /\ x \notin Range(scan.newProviders)

\* C12: once an admin has deleted account x, x never appears in the pool again
\* after any later operation (rescans, deletion of other accounts including
\* the last one) unless x is enrolled again: a deleted account stays deleted
\* over every step that does not enroll it.
C12_DeletedStaysOut ==
    [][\A x \in Ids : Gone(x) => (Gone(x)' \/ x \in kvKeys')]_vars

(***************************************************************************)
(* The quota specification: requests of one instance call the quota        *)
(* manager in any order (admission checks of either kind, chat attempts    *)
(* that succeed or fail), the flush chain runs behind them, and the clock  *)
(* advances.  lastCall names the latest call, numbered by n.  MaxCalls     *)
(* bounds the admission checks and clock advances of a behaviour.          *)
(***************************************************************************)
QuotaAnswers == {Resp(200, <<>>), Resp(401, <<>>), Resp(429, <<"Too", "Many", "Requests">>)}

QuotaInit ==
    /\ ClockInit
    /\ registry = <<"A", "B">>
    /\ authExpired = [i \in Ids |-> FALSE]
    /\ PoolIdle
    /\ \E dl \in {0, MaxLimit}, r \in {0, MaxLimit} :
          limits = [k \in Kinds |-> [daily |-> dl, rpm |-> r]]
    /\ QuotaIdle
    /\ RefreshIdle
    /\ StreamIdle
    /\ AttemptIdle
    /\ AlertIdle

\* a request's admission check
AdmissionCheck(id, kind) ==
    /\ events < MaxCalls
    /\ events' = events + 1
    /\ \E r \in {checkQuota(quota, db, limits, id, kind, now)} :
          /\ quota' = r.quota
          /\ lastCall' = [n |-> lastCall.n + 1, op |-> "checkQuota", id |-> id,
                          kind |-> kind, allowed |-> r.allowed, reason |-> r.reason,
                          at |-> now, retried |-> FALSE]
          /\ admitted' = IF r.allowed /\ kind = "chat"
                         THEN [admitted EXCEPT ![id] = @ + 1] ELSE admitted
    /\ UNCHANGED <<now, poolVars, limits, db, refreshVars, storeVars, streamVars, attemptVars, alertVars>>

\* an admitted request's handleChatCompletion on its account
ChatAttempt(id) ==
    /\ admitted[id] > 0
    /\ admitted' = [admitted EXCEPT ![id] = @ - 1]
    /\ \E r1 \in QuotaAnswers :
       \E r2 \in IF r1.status = 401 THEN QuotaAnswers \ {r1} ELSE {r1} :
       \E h \in {handleChat(pstate[id], quota, db, id, r1, r2, now)} :
          /\ pstate' = [pstate EXCEPT ![id] = h.ps]
          /\ quota' = h.quota
          /\ lastCall' = [n |-> lastCall.n + 1, op |-> "chat", id |-> id,
                          kind |-> "chat", allowed |-> h.ok, reason |-> h.reason,
                          at |-> now, retried |-> h.retried]
    /\ UNCHANGED <<clockVars, registry, kvKeys, authExpired, providers, currentIndex,
                   lastScanAt, scan, disp, limits, db, refreshVars, storeVars, streamVars, attemptVars, alertVars>>

\* a flushToDB run of the chain starts
FlushTake ==
    /\ quota.flushChain > 0
    /\ ~quota.inflight.busy
    /\ quota' = flushToDBTake(quota)
    /\ UNCHANGED <<clockVars, poolVars, limits, db, lastCall, admitted, refreshVars,
                   storeVars, streamVars, attemptVars, alertVars>>

\* the store answers the batch of the run in flight
FlushDone ==
    /\ quota.inflight.busy
    /\ \E batchOk \in BOOLEAN :
       \E r \in {flushToDBDone(quota, db, batchOk)} :
          /\ quota' = r.quota
          /\ db' = r.db
    /\ UNCHANGED <<clockVars, poolVars, limits, lastCall, admitted, refreshVars,
                   storeVars, streamVars, attemptVars, alertVars>>

\* the clock advances past the usage cache's lifetime or by a minute
QuotaTick ==
    /\ events < MaxCalls
    /\ events' = events + 1
    /\ \E dt \in {usageCacheTtlMs, MinuteMs} : now' = now + dt
    /\ UNCHANGED <<poolVars, quotaVars, refreshVars, storeVars, streamVars, attemptVars, alertVars>>

QuotaNext ==
    \/ \E id \in Ids, kind \in Kinds : AdmissionCheck(id, kind)
    \/ \E id \in Ids : ChatAttempt(id)
    \/ FlushTake
    \/ FlushDone
    \/ QuotaTick

SpecQuota == QuotaInit /\ [][QuotaNext]_vars

(***************************************************************************)
(* Properties of the quota specification.  A step is a quota-manager call  *)
(* when it renumbers lastCall; the buckets are the pending maps the call   *)
(* writes to, which the flush later moves to the store.                    *)
(***************************************************************************)
IsCall(op) == lastCall'.n # lastCall.n /\ lastCall'.op = op

UsageKey(id, kind) == <<getBeijingDate(now), id, kind>>

AuditKey(id, kind, outcome) == <<getBeijingMinuteBucket(now), id, kind, outcome>>

C6_RejectionLeavesUsage ==
    [][(IsCall("checkQuota") /\ ~lastCall'.allowed) =>
          Get(quota'.pendingUsageWrites, UsageKey(lastCall'.id, lastCall'.kind))
            = Get(quota.pendingUsageWrites, UsageKey(lastCall'.id, lastCall'.kind))]_vars

\* C7: a checkQuota call that answers {allowed: false, reason: r} adds exactly
\* one audit delta, +1 on (current minute, account, kind, limited:r), and none
\* on any other outcome.
C7_RejectionAuditsOnce ==
    [][(IsCall("checkQuota") /\ ~lastCall'.allowed) =>
          /\ lastCall'.reason \in {"daily", "rpm"}
          /\ quota'.pendingAuditWrites =
                AddTo(quota.pendingAuditWrites,
                      AuditKey(lastCall'.id, lastCall'.kind,
                               <<"limited", lastCall'.reason>>), 1)
          /\ quota'.inflight = quota.inflight
          /\ db' = db]_vars

\* an admission check has just answered a rejection for the rpm limit and its
\* audit delta is still buffered
C7_Witness ==
    /\ lastCall.op = "checkQuota" /\ ~lastCall.allowed /\ lastCall.reason = "rpm"
    /\ Get(quota.pendingAuditWrites,
           <<getBeijingMinuteBucket(lastCall.at), lastCall.id, lastCall.kind,
             <<"limited", "rpm">>>>) > 0

(***************************************************************************)
(* The refresh specification: two callers of refreshToken for one account, *)
(* each with its own QwenAuthManager, over the blob store (KVStorage) and  *)
(* the token endpoint.  Credentials are numbered by the endpoint's issue   *)
(* count; the enrolled credential is number 0.  The endpoint answers a     *)
(* grant made with the refresh token it honours either way, and rejects a  *)
(* grant made with any other.                                              *)
(***************************************************************************)
TokenResponses == {"rotated", "kept", "rejected", "failed", "invalid_json"}

RefreshInit ==
    /\ ClockInit
    /\ registry = <<"A", "B">>
    /\ authExpired = [i \in Ids |-> FALSE]
    /\ PoolIdle
    /\ limits = [k \in Kinds |-> DefaultSearchLimits]
    /\ QuotaIdle
    /\ RefreshIdle
    /\ StreamIdle
    /\ AttemptIdle
    /\ AlertIdle

\* loadCredentials reading the store: the canonical key is read; when it holds
\* no credential and this manager has not checked the legacy key yet, the legacy
\* key is read, and a credential found there is set under the canonical key and
\* the legacy key deleted.  Returns the credential (NoCredential for null), the
\* two entries and legacyChecked after the call, and the keys it set.
loadCredentials(st, leg, m) ==
    IF st # NoCredential
    THEN [creds |-> st, stored |-> st, legacy |-> leg,
          legacyChecked |-> m.legacyChecked, sets |-> <<>>]
    ELSE IF ~m.legacyChecked /\ leg # NoCredential
    THEN [creds |-> leg, stored |-> leg, legacy |-> NoCredential,
          legacyChecked |-> TRUE, sets |-> <<"canonical">>]
    ELSE [creds |-> NoCredential, stored |-> st, legacy |-> leg,
          legacyChecked |-> TRUE, sets |-> <<>>]

\* loadCredentials answered from memoryCredentials, within its 5 s lifetime
loadFromMemory(memory, st, leg, m) ==
    [creds |-> memory, stored |-> st, legacy |-> leg,
     legacyChecked |-> m.legacyChecked, sets |-> <<>>]

\* the blob store's record of credential set calls after writer `by` set `keys`
noteSets(ks, by, keys) ==
    IF keys = <<>> THEN ks
    ELSE [n |-> ks.n + Len(keys), by |-> by, key |-> keys[Len(keys)]]

\* releaseLock after its read of the entry: the delete follows only for the
\* caller's own token
releaseLockSkipped(entry, token) == "done"

releaseLock(entry, token) == IF entry = token THEN "releaseDelete" ELSE "done"

\* getValidCredentials loads the credential, from memory or from the store,
\* finds it about to expire and calls refreshToken with its refresh token
BeginRefresh(c) ==
    /\ rf[c].pc \in {"idle", "done"}
    /\ rf[c].calls < MaxRefreshes
    /\ \E fromMemory \in BOOLEAN :
       \E l \in {IF fromMemory
                 THEN loadFromMemory(rf[c].memoryCredentials, stored, legacy, mgr[c])
                 ELSE loadCredentials(stored, legacy, mgr[c])} :
          /\ l.creds # NoCredential
          /\ rf' = [rf EXCEPT ![c] =
                      [@ EXCEPT !.pc = "lockGet", !.memoryCredentials = l.creds,
                                !.refreshToken = l.creds.refresh_token,
                                !.lockToken = <<c, rf[c].calls + 1>>,
                                !.creds = NoCredential, !.i = 0, !.result = NoResult,
                                !.calls = @ + 1, !.sent = FALSE, !.updated = FALSE]]
          /\ stored' = l.stored
          /\ legacy' = l.legacy
          /\ mgr' = [mgr EXCEPT ![c] = [legacyChecked |-> l.legacyChecked, sets |-> <<>>]]
          /\ kvSets' = noteSets(kvSets, c, l.sets)
    /\ UNCHANGED <<clockVars, poolVars, quotaVars, streamVars, attemptVars, alertVars, lockEntry, issued,
                   lapses, patch>>

\* acquireLock: the lock entry is read; an existing one sends the caller to wait
LockGet(c) ==
    /\ rf[c].pc = "lockGet"
    /\ rf' = [rf EXCEPT ![c].pc = IF lockEntry # NoLock THEN "wait" ELSE "lockPut"]
    /\ UNCHANGED <<clockVars, poolVars, quotaVars, storeVars, streamVars, attemptVars, alertVars, stored,
                   lockEntry, issued, lapses>>

\* acquireLock: the caller's token is put under the lock key
LockPut(c) ==
    /\ rf[c].pc = "lockPut"
    /\ lockEntry' = rf[c].lockToken
    /\ rf' = [rf EXCEPT ![c].pc = "lockVerify"]
    /\ UNCHANGED <<clockVars, poolVars, quotaVars, storeVars, streamVars, attemptVars, alertVars, stored,
                   issued, lapses>>

\* acquireLock: the entry is read back; the caller holds the lock if it is its own
LockVerify(c) ==
    /\ rf[c].pc = "lockVerify"
    /\ rf' = [rf EXCEPT ![c].pc = IF lockEntry = rf[c].lockToken THEN "load" ELSE "wait"]
    /\ UNCHANGED <<clockVars, poolVars, quotaVars, storeVars, streamVars, attemptVars, alertVars, stored,
                   lockEntry, issued, lapses>>

\* under the lock: loadCredentials(true); a credential with another refresh
\* token is returned as it is
LoadLatest(c) ==
    /\ rf[c].pc = "load"
    /\ \E l \in {loadCredentials(stored, legacy, mgr[c])} :
          /\ rf' = [rf EXCEPT ![c] =
                      IF l.creds # NoCredential /\ l.creds.refresh_token # rf[c].refreshToken
                      THEN [@ EXCEPT !.pc = "release", !.memoryCredentials = l.creds,
                                     !.result = Returned(l.creds)]
                      ELSE [@ EXCEPT !.pc = "fetch",
                                     !.memoryCredentials =
                                         IF l.creds # NoCredential THEN l.creds ELSE @]]
          /\ stored' = l.stored
          /\ legacy' = l.legacy
          /\ mgr' = [mgr EXCEPT ![c] = [legacyChecked |-> l.legacyChecked,
                                        sets |-> mgr[c].sets \o l.sets]]
          /\ kvSets' = noteSets(kvSets, c, l.sets)
    /\ UNCHANGED <<clockVars, poolVars, quotaVars, streamVars, attemptVars, alertVars, lockEntry, issued,
                   lapses, patch>>

\* the refresh_token grant is sent and answered: 2xx with or without a new
\* refresh token, 400/401, another failure, or a 2xx that is not JSON.  The
\* endpoint issues a credential only for the refresh token it honours.
TokenRequest(c) ==
    /\ rf[c].pc = "fetch"
    /\ \E response \in TokenResponses :
          /\ response \in {"rotated", "kept"} => rf[c].refreshToken = issued.refresh_token
          /\ IF response \in {"rotated", "kept"}
             THEN /\ issued' = [n |-> issued.n + 1,
                                refresh_token |-> IF response = "rotated"
                                                  THEN issued.n + 1
                                                  ELSE issued.refresh_token]
                  /\ rf' = [rf EXCEPT ![c] =
                              [@ EXCEPT !.pc = "save", !.sent = TRUE,
                                        !.creds = Credential(issued.n + 1,
                                                     IF response = "rotated"
                                                     THEN issued.n + 1
                                                     ELSE rf[c].refreshToken)]]
             ELSE /\ issued' = issued
                  /\ rf' = [rf EXCEPT ![c] =
                              [@ EXCEPT !.pc = "release", !.sent = TRUE,
                                        !.result = Thrown(IF response = "failed"
                                                          THEN "HTTP 500"
                                                          ELSE "AUTH_EXPIRED")]]
    /\ UNCHANGED <<clockVars, poolVars, quotaVars, storeVars, streamVars, attemptVars, alertVars, stored,
                   lockEntry, lapses>>

\* saveCredentials: the store takes the credential, or the write fails
SaveCredentials(c) ==
    /\ rf[c].pc = "save"
    /\ \E written \in BOOLEAN :
          IF written
          THEN /\ stored' = rf[c].creds
               /\ rf' = [x \in Callers |->
                           IF x = c
                           THEN [rf[c] EXCEPT !.pc = "release",
                                              !.memoryCredentials = rf[c].creds,
                                              !.result = Returned(rf[c].creds)]
                           ELSE IF rf[x].pc = "wait" THEN [rf[x] EXCEPT !.updated = TRUE]
                           ELSE rf[x]]
               /\ mgr' = [mgr EXCEPT ![c].sets = @ \o <<"canonical">>]
               /\ kvSets' = noteSets(kvSets, c, <<"canonical">>)
          ELSE /\ stored' = stored
               /\ rf' = [rf EXCEPT ![c] =
                           [@ EXCEPT !.pc = "release", !.result = Thrown("save failed")]]
               /\ UNCHANGED <<mgr, kvSets>>
    /\ UNCHANGED <<clockVars, poolVars, quotaVars, streamVars, attemptVars, alertVars, lockEntry, issued, lapses, legacy,
                   patch>>

\* releaseLock: the entry is read; it is deleted only if it is the caller's
ReleaseGet(c) ==
    /\ rf[c].pc = "release"
    /\ rf' = [rf EXCEPT ![c].pc = releaseLock(lockEntry, rf[c].lockToken)]
    /\ UNCHANGED <<clockVars, poolVars, quotaVars, storeVars, streamVars, attemptVars, alertVars, stored,
                   lockEntry, issued, lapses>>

ReleaseDelete(c) ==
    /\ rf[c].pc = "releaseDelete"
    /\ lockEntry' = NoLock
    /\ rf' = [rf EXCEPT ![c].pc = "done"]
    /\ UNCHANGED <<clockVars, poolVars, quotaVars, storeVars, streamVars, attemptVars, alertVars, stored,
                   issued, lapses>>

\* waitForTokenUpdate: one round of sleep and loadCredentials(true)
WaitPoll(c) ==
    /\ rf[c].pc = "wait"
    /\ \E l \in {loadCredentials(stored, legacy, mgr[c])} :
       \E memory \in {IF l.creds # NoCredential THEN l.creds
                      ELSE rf[c].memoryCredentials} :
          /\ rf' = [rf EXCEPT ![c] =
                      IF l.creds # NoCredential /\ l.creds.refresh_token # rf[c].refreshToken
                      THEN [@ EXCEPT !.pc = "done", !.memoryCredentials = memory,
                                     !.result = Returned(l.creds)]
                      ELSE IF rf[c].i + 1 < maxRetries
                      THEN [@ EXCEPT !.i = @ + 1, !.memoryCredentials = memory]
                      ELSE [@ EXCEPT !.pc = "done", !.i = @ + 1,
                                     !.memoryCredentials = memory,
                                     !.result =
                                         Thrown("Timeout or failure waiting for token update")]]
          /\ stored' = l.stored
          /\ legacy' = l.legacy
          /\ mgr' = [mgr EXCEPT ![c] = [legacyChecked |-> l.legacyChecked,
                                        sets |-> mgr[c].sets \o l.sets]]
          /\ kvSets' = noteSets(kvSets, c, l.sets)
    /\ UNCHANGED <<clockVars, poolVars, quotaVars, streamVars, attemptVars, alertVars, lockEntry, issued,
                   lapses, patch>>

\* the blob store expires the lock entry, 60 s after it was put
LockExpire ==
    /\ lockEntry # NoLock
    /\ lapses < MaxLapses
    /\ lapses' = lapses + 1
    /\ lockEntry' = NoLock
    /\ UNCHANGED <<clockVars, poolVars, quotaVars, storeVars, streamVars, attemptVars, alertVars, stored,
                   issued, rf>>

RefreshNext ==
    \/ \E c \in Callers : BeginRefresh(c)
    \/ \E c \in Callers : LockGet(c)
    \/ \E c \in Callers : LockPut(c)
    \/ \E c \in Callers : LockVerify(c)
    \/ \E c \in Callers : LoadLatest(c)
    \/ \E c \in Callers : TokenRequest(c)
    \/ \E c \in Callers : SaveCredentials(c)
    \/ \E c \in Callers : ReleaseGet(c)
    \/ \E c \in Callers : ReleaseDelete(c)
    \/ \E c \in Callers : WaitPoll(c)
    \/ LockExpire

SpecRefresh == RefreshInit /\ [][RefreshNext]_vars

(***************************************************************************)
(* Properties of the refresh specification.                                *)
(***************************************************************************)
Holding(c) == rf[c].pc \in {"load", "fetch", "save"}

\* C1: of two concurrent refresh attempts on one account at most one obtains
\* the lock token_refresh:<credsKey>, and the other never sends its own
\* refresh_token grant.  Stated while no lock entry has expired: at most one
\* caller at a time is under the lock with its grant sent.
C1_OneGrantUnderLock ==
    lapses = 0 => Cardinality({c \in Callers : Holding(c) /\ rf[c].sent}) <= 1

\* C2: whatever the lock does, once every refresh has finished the credential
\* under the canonical key is the one the endpoint issued last, never one it
\* has superseded.  Stated for behaviours in which no store write failed.
C2_StoredIsLastIssued ==
    (\A c \in Callers : /\ rf[c].pc \in {"idle", "done"}
                        /\ rf[c].result.msg # "save failed")
        => stored.access_token = issued.n

\* C14: when a refreshToken call has returned or thrown, the lock entry does
\* not carry that call's token, whichever way the call ended: stored token
\* already rotated, 400/401, another failure, invalid JSON, a failed
\* credential write, or success.
C14_LockGoneOnExit ==
    \A c \in Callers :
        (rf[c].pc = "done" /\ rf[c].lockToken # NoLock) => lockEntry # rf[c].lockToken

\* a call that held the lock, sent the grant and failed to write the credential
\* has ended, and its release deleted the entry
C14_Witness ==
    \E c \in Callers :
        /\ rf[c].pc = "done"
        /\ rf[c].sent
        /\ rf[c].result = Thrown("save failed")
        /\ lockEntry = NoLock
        /\ lapses = 0

(***************************************************************************)
(* The store specification: one account's credential entries in the blob   *)
(* store, under the canonical key and under the legacy './'-prefixed key,  *)
(* with one QwenAuthManager reading and refreshing the credential and the  *)
(* admin route PATCH /api/providers/alias rewriting it.  kvSets counts the *)
(* set calls on the credential entries and names the last one.             *)
(***************************************************************************)
StoreCallers == {"c1"}

KeyForms == {"canonical", "legacy"}

\* the account as enrolled: its credential under either key, or under both
StoreInit ==
    /\ ClockInit
    /\ registry = <<"A", "B">>
    /\ authExpired = [i \in Ids |-> FALSE]
    /\ PoolIdle
    /\ limits = [k \in Kinds |-> DefaultSearchLimits]
    /\ QuotaIdle
    /\ lockEntry = NoLock
    /\ issued = [n |-> 0, refresh_token |-> 0]
    /\ lapses = 0
    /\ rf = [c \in Callers |-> [IdleCaller EXCEPT !.memoryCredentials = NoCredential]]
    /\ mgr = [c \in Callers |-> IdleManager]
    /\ patch = IdlePatch
    /\ kvSets = NoSet
    /\ StreamIdle
    /\ AttemptIdle
    /\ AlertIdle
    /\ \E held \in (SUBSET KeyForms) \ {{}} :
          /\ stored = IF "canonical" \in held THEN Credential(0, 0) ELSE NoCredential
          /\ legacy = IF "legacy" \in held THEN Credential(0, 0) ELSE NoCredential

\* getValidCredentials on a credential that is not about to expire, or absent:
\* loadCredentials, from memory or from the store, and the return or the throw
ReadCredentials(c) ==
    /\ rf[c].pc \in {"idle", "done"}
    /\ \E fromMemory \in {FALSE} \cup {rf[c].memoryCredentials # NoCredential} :
       \E l \in {IF fromMemory
                 THEN loadFromMemory(rf[c].memoryCredentials, stored, legacy, mgr[c])
                 ELSE loadCredentials(stored, legacy, mgr[c])} :
          /\ rf' = [rf EXCEPT ![c] =
                      IF l.creds = NoCredential
                      THEN [@ EXCEPT !.pc = "done", !.lockToken = NoLock, !.sent = FALSE,
                                     !.result = Thrown("No credentials found.")]
                      ELSE [@ EXCEPT !.pc = "done", !.lockToken = NoLock, !.sent = FALSE,
                                     !.memoryCredentials = l.creds,
                                     !.result = Returned(l.creds)]]
          /\ stored' = l.stored
          /\ legacy' = l.legacy
          /\ mgr' = [mgr EXCEPT ![c] = [legacyChecked |-> l.legacyChecked, sets |-> <<>>]]
          /\ kvSets' = noteSets(kvSets, c, l.sets)
    /\ UNCHANGED <<clockVars, poolVars, quotaVars, streamVars, attemptVars, alertVars, lockEntry, issued,
                   lapses, patch>>

\* PATCH /api/providers/alias?id=...: the entry is read under the id given,
\* else under its other form; no entry ends the request
PatchRead(id) ==
    /\ patch.pc = "idle"
    /\ patch.count < MaxPatches
    /\ \E first \in {IF id = "canonical" THEN stored ELSE legacy},
          alt \in {IF id = "canonical" THEN legacy ELSE stored} :
       \E data \in {IF first # NoCredential THEN first ELSE alt} :
          patch' = IF data = NoCredential
                   THEN [IdlePatch EXCEPT !.count = patch.count + 1]
                   ELSE [pc |-> "write", id |-> id, data |-> data,
                         count |-> patch.count + 1]
    /\ UNCHANGED <<clockVars, poolVars, quotaVars, streamVars, attemptVars, alertVars, refreshVars, legacy,
                   mgr, kvSets>>

\* the entry is set under the id given and deleted under its other form
PatchWrite ==
    /\ patch.pc = "write"
    /\ stored' = IF patch.id = "canonical" THEN patch.data ELSE NoCredential
    /\ legacy' = IF patch.id = "legacy" THEN patch.data ELSE NoCredential
    /\ kvSets' = noteSets(kvSets, "admin", <<patch.id>>)
    /\ patch' = [IdlePatch EXCEPT !.count = patch.count]
    /\ UNCHANGED <<clockVars, poolVars, quotaVars, streamVars, attemptVars, alertVars, lockEntry, issued, rf,
                   lapses, mgr>>

StoreNext ==
    \/ \E c \in StoreCallers : ReadCredentials(c)
    \/ \E c \in StoreCallers : BeginRefresh(c)
    \/ \E c \in StoreCallers : LockGet(c)
    \/ \E c \in StoreCallers : LockPut(c)
    \/ \E c \in StoreCallers : LockVerify(c)
    \/ \E c \in StoreCallers : LoadLatest(c)
    \/ \E c \in StoreCallers : TokenRequest(c)
    \/ \E c \in StoreCallers : SaveCredentials(c)
    \/ \E c \in StoreCallers : ReleaseGet(c)
    \/ \E c \in StoreCallers : ReleaseDelete(c)
    \/ \E c \in StoreCallers : WaitPoll(c)
    \/ LockExpire
    \/ \E id \in KeyForms : PatchRead(id)
    \/ PatchWrite

SpecStore == StoreInit /\ [][StoreNext]_vars

(***************************************************************************)
(* Properties of the store specification.                                  *)
(***************************************************************************)
\* C13: every write to the account's credential entry is made by a writer
\* that holds lock:token_refresh:<id> at the time of the write.
C13_WritesUnderLock ==
    [][kvSets'.n # kvSets.n =>
          /\ kvSets'.by \in Callers
          /\ lockEntry # NoLock
          /\ lockEntry = rf[kvSets'.by].lockToken]_vars

\* C16: a refreshToken call that returns the credential it was granted has
\* performed exactly one set on the blob store, on the canonical key.
C16_OneSetPerRefresh ==
    \A c \in Callers :
        (rf[c].pc = "done" /\ rf[c].sent /\ rf[c].result.kind = "credential")
            => mgr[c].sets = <<"canonical">>

\* C17: a first read of the account that finds a credential, or a refresh that
\* stores one, while a legacy entry exists, leaves the credential under the
\* canonical key and no legacy entry.
C17_LegacyMigrated ==
    [][\A c \in Callers :
          (/\ legacy # NoCredential
           /\ patch' = patch
           /\ \/ rf[c].memoryCredentials = NoCredential /\ rf'[c].memoryCredentials # NoCredential
              \/ rf[c].pc = "save" /\ rf'[c].result.kind = "credential")
              => (stored' # NoCredential /\ legacy' = NoCredential)]_vars

(***************************************************************************)
(* The stream specification: createSSETransformer on one streamed          *)
(* response.  The upstream bytes are a sequence of pieces: "\n", the       *)
(* prefix "data: ", a JSON chunk whose choices[0].delta.content is "a" or  *)
(* "b", and "e", a JSON chunk whose delta has no content.  Every piece is  *)
(* a place where the upstream may cut one chunk from the next.             *)
(***************************************************************************)
Contents == {"a", "b"}

JsonChunks == Contents \cup {"e"}

\* one upstream event, and the ways the last event of a response may end
EventOf(x) == <<"data: ", x>>

Endings == {<<>>, <<"\n">>, <<"\n", "\n">>}

\* the upstream responses: up to MaxStreamEvents events
RECURSIVE Join(_)
Join(xs) == IF xs = <<>> THEN <<>> ELSE EventOf(Head(xs)) \o <<"\n", "\n">> \o Join(Tail(xs))

Upstreams ==
    {Join(SubSeq(xs, 1, Len(xs) - 1)) \o EventOf(xs[Len(xs)]) \o ending :
        xs \in UNION {[1..n -> JsonChunks] : n \in 1..MaxStreamEvents}, ending \in Endings}

\* String.prototype.split("\n\n"): the pieces between the separators, left to right
RECURSIVE split(_)
split(s) ==
    LET at == {i \in 1..(Len(s) - 1) : s[i] = "\n" /\ s[i + 1] = "\n"}
    IN  IF at = {} THEN <<s>>
        ELSE LET i == CHOOSE j \in at : \A k \in at : j <= k
             IN  <<SubSeq(s, 1, i - 1)>> \o split(SubSeq(s, i + 2, Len(s)))

\* String.prototype.trim on these pieces: leading and trailing "\n" removed
RECURSIVE trim(_)
trim(s) ==
    IF s = <<>> THEN s
    ELSE IF Head(s) = "\n" THEN trim(Tail(s))
    ELSE IF s[Len(s)] = "\n" THEN trim(SubSeq(s, 1, Len(s) - 1))
    ELSE s

\* JSON.parse of what follows "data: ", and choices[0].delta.content of the
\* result: "" for a delta without content, "throws" when it is not one JSON chunk
deltaContent(dataStr) ==
    LET t == trim(dataStr)
    IN  IF Len(t) = 1 /\ t[1] \in JsonChunks
        THEN IF t[1] \in Contents THEN t[1] ELSE ""
        ELSE "throws"

\* the body of the loop over the complete events: whether the event is
\* enqueued, and lastContent afterwards
isDuplicate(content, lastContent) == content # "" /\ content = lastContent

processEvent(event, lastContent) ==
    IF trim(event) = <<>> THEN [emit |-> FALSE, lastContent |-> lastContent]
    ELSE IF event[1] # "data: " THEN [emit |-> TRUE, lastContent |-> lastContent]
    ELSE LET content == deltaContent(Tail(event))
         IN  IF content = "throws" THEN [emit |-> TRUE, lastContent |-> lastContent]
             ELSE IF isDuplicate(content, lastContent)
             THEN [emit |-> FALSE, lastContent |-> lastContent]
             ELSE [emit |-> TRUE,
                   lastContent |-> IF content # "" THEN content ELSE lastContent]

RECURSIVE processEvents(_, _, _)
processEvents(evs, lastContent, out) ==
    IF evs = <<>> THEN [lastContent |-> lastContent, out |-> out]
    ELSE LET r == processEvent(Head(evs), lastContent)
         IN  processEvents(Tail(evs), r.lastContent,
                           IF r.emit THEN Append(out, Head(evs) \o <<"\n", "\n">>)
                           ELSE out)

\* the upstream response begins
StreamInit ==
    /\ ClockInit
    /\ registry = <<"A", "B">>
    /\ authExpired = [i \in Ids |-> FALSE]
    /\ PoolIdle
    /\ limits = [k \in Kinds |-> DefaultSearchLimits]
    /\ QuotaIdle
    /\ RefreshIdle
    /\ AttemptIdle
    /\ AlertIdle
    /\ \E u \in Upstreams : sse = [IdleStream EXCEPT !.upstream = u, !.pc = "open"]

\* transform(chunk): the next n pieces of the upstream arrive as one chunk
transform(n) ==
    /\ sse.pc = "open"
    /\ n \in 1..Len(sse.upstream)
    /\ \E evs \in {split(sse.buffer \o SubSeq(sse.upstream, 1, n))} :
       \E r \in {processEvents(SubSeq(evs, 1, Len(evs) - 1), sse.lastContent, sse.out)} :
          sse' = [sse EXCEPT !.upstream = SubSeq(@, n + 1, Len(@)),
                             !.buffer = evs[Len(evs)],
                             !.lastContent = r.lastContent,
                             !.out = r.out]
    /\ UNCHANGED <<clockVars, poolVars, quotaVars, refreshVars, storeVars, attemptVars, alertVars>>

\* flush: the upstream has ended; what is left in the buffer is enqueued as it is
flush ==
    /\ sse.pc = "open"
    /\ sse.upstream = <<>>
    /\ sse' = [sse EXCEPT !.out = IF sse.buffer # <<>> THEN Append(@, sse.buffer) ELSE @,
                          !.lastContent = "",
                          !.pc = "closed"]
    /\ UNCHANGED <<clockVars, poolVars, quotaVars, refreshVars, storeVars, attemptVars, alertVars>>

StreamNext ==
    \/ \E n \in 1..Len(sse.upstream) : transform(n)
    \/ flush

SpecStream == StreamInit /\ [][StreamNext]_vars

(***************************************************************************)
(* Properties of the stream specification.                                 *)
(***************************************************************************)
\* the delta.content values a client reads in what was enqueued, in order
RECURSIVE emittedContents(_)
emittedContents(out) ==
    IF out = <<>> THEN <<>>
    ELSE LET ev == trim(Head(out))
             content == IF ev # <<>> /\ ev[1] = "data: " THEN deltaContent(Tail(ev))
                        ELSE "throws"
         IN  (IF content \in Contents THEN <<content>> ELSE <<>>)
                 \o emittedContents(Tail(out))

\* C15: under any chunking of the upstream bytes, the delta.content values of
\* the emitted events contain no two adjacent equal strings, the event
\* emitted at flush included.
C15_NoAdjacentDuplicates ==
    \A k \in 1..(Len(emittedContents(sse.out)) - 1) :
        emittedContents(sse.out)[k] # emittedContents(sse.out)[k + 1]

(***************************************************************************)
(* The rollover specification: the quota manager of one instance around    *)
(* the change of the Beijing date.  The instance starts one second before  *)
(* UTC 16:00:00 with daily limits set and with accounts whose chat usage   *)
(* of the day, persisted in usage_stats, has reached the limit.            *)
(***************************************************************************)
\* UTC 16:00:00 of the first day: getBeijingDate changes from day 0 to day 1
RolloverAt == DayMs - BEIJING_OFFSET_MS

SecondMs == MinuteMs \div 60

RolloverInit ==
    /\ now = RolloverAt - SecondMs
    /\ events = 0
    /\ registry = <<"A", "B">>
    /\ authExpired = [i \in Ids |-> FALSE]
    /\ PoolIdle
    /\ \E r \in {0, MaxLimit} : limits = [k \in Kinds |-> [daily |-> MaxLimit, rpm |-> r]]
    /\ quota = InitQuota
    /\ \E full \in SUBSET Ids :
          db = [InitDb(TRUE) EXCEPT !.usage_stats =
                   [x \in {<<getBeijingDate(now), id, "chat">> : id \in full} |-> MaxLimit]]
    /\ lastCall = NoCall
    /\ admitted = [i \in Ids |-> 0]
    /\ RefreshIdle
    /\ StreamIdle
    /\ AttemptIdle
    /\ AlertIdle

\* the clock advances by a second, or past the usage cache's lifetime
RolloverTick ==
    /\ events < MaxCalls
    /\ events' = events + 1
    /\ \E dt \in {SecondMs, usageCacheTtlMs} : now' = now + dt
    /\ UNCHANGED <<poolVars, quotaVars, refreshVars, storeVars, streamVars, attemptVars, alertVars>>

RolloverNext ==
    \/ \E id \in Ids, kind \in Kinds : AdmissionCheck(id, kind)
    \/ \E id \in Ids : ChatAttempt(id)
    \/ FlushTake
    \/ FlushDone
    \/ RolloverTick

SpecRollover == RolloverInit /\ [][RolloverNext]_vars

(***************************************************************************)
(* Properties of the rollover specification.                               *)
(***************************************************************************)
\* the usage of an account and kind recorded for a date: persisted, in the
\* batch in flight, or still buffered
recordedUsage(date, id, kind) ==
    Get(db.usage_stats, <<date, id, kind>>)
        + Get(quota.inflight.usage, <<date, id, kind>>)
        + Get(quota.pendingUsageWrites, <<date, id, kind>>)

\* C18: once the Beijing date has rolled over, the daily usage checkQuota
\* compares against the limit is the new date's count: a check on the new
\* date answers 'daily' only if the usage recorded for the new date has
\* reached the limit, also when less than 5 s have passed since the last
\* request of the old date.
C18_DailyRebasesAtRollover ==
    [][(/\ lastCall'.n = lastCall.n + 1
        /\ lastCall'.op = "checkQuota"
        /\ now >= RolloverAt
        /\ ~lastCall'.allowed
        /\ lastCall'.reason = "daily")
           => recordedUsage(getBeijingDate(now), lastCall'.id, lastCall'.kind)
                 >= limits[lastCall'.kind].daily]_vars

(***************************************************************************)
(* The cooldown specification: chat and web-search attempts of the         *)
(* accounts of one instance, several of them in flight at a time, and the  *)
(* clock.  An attempt is one run of handleChatCompletion or of             *)
(* handleWebSearch of a QwenProvider.                                      *)
(***************************************************************************)
\* a successful search that leaves the cooldown as it was
handleWebSearchKeepsCooldown(ps, q, d, id, r1, r2, payloadOk, t) ==
    [ok |-> TRUE, reason |-> "success", retried |-> FALSE,
     ps |-> [ps EXCEPT !.status = "active"],
     quota |-> incrementUsage(q, d, id, "search", t)]

\* handleWebSearch of one account: r1 is the outcome of attemptSearch(false), r2
\* that of attemptSearch(true), made only after a 401; payloadOk tells whether
\* the body of a 2xx answer has status 0
handleWebSearch(ps, q, d, id, r1, r2, payloadOk, t) ==
    LET final == IF r1.t = "resp" /\ r1.status = 401 THEN r2 ELSE r1
        retried == r1.t = "resp" /\ r1.status = 401
        failed(reason) ==
            [ok |-> FALSE, reason |-> reason, retried |-> retried,
             ps |-> [ps EXCEPT !.status = "error", !.retryAfterTs = t + errorCooldownMs],
             quota |-> recordFailure(q, d, id, "search", reason, t)]
    IN IF final.t = "throw"
       THEN failed(IF final.msg = MsgAuthExpired THEN "auth_expired" ELSE "runtime_error")
       ELSE IF ~ResponseOk(final.status) THEN failed(UpstreamReason(final.status))
       ELSE IF ~payloadOk THEN failed("invalid_payload")
       ELSE [ok |-> TRUE, reason |-> "success", retried |-> retried,
             ps |-> [ps EXCEPT !.status = "active", !.retryAfterTs = 0],
             quota |-> incrementUsage(q, d, id, "search", t)]

SearchAnswers == {Resp(200, <<>>), Resp(401, <<>>), Resp(500, <<>>), Throw(MsgAuthExpired)}

\* a search request's handleWebSearch on its account
SearchAttempt(id) ==
    /\ events < MaxCalls
    /\ events' = events + 1
    /\ \E r1 \in SearchAnswers, payloadOk \in BOOLEAN :
       \E r2 \in IF r1.t = "resp" /\ r1.status = 401 THEN SearchAnswers \ {r1} ELSE {r1} :
       \E h \in {handleWebSearch(pstate[id], quota, db, id, r1, r2, payloadOk, now)} :
          /\ pstate' = [pstate EXCEPT ![id] = h.ps]
          /\ quota' = h.quota
          /\ lastCall' = [n |-> lastCall.n + 1, op |-> "search", id |-> id,
                          kind |-> "search", allowed |-> h.ok, reason |-> h.reason,
                          at |-> now, retried |-> h.retried]
    /\ UNCHANGED <<now, registry, kvKeys, authExpired, providers, currentIndex,
                   lastScanAt, scan, disp, limits, db, admitted, refreshVars, storeVars,
                   streamVars, attemptVars, alertVars>>

\* an admitted request's handleChatCompletion whose fetch throws: the upstream
\* did not answer within 60 s, or the connection failed
ChatTransportFailure(id) ==
    /\ admitted[id] > 0
    /\ admitted' = [admitted EXCEPT ![id] = @ - 1]
    /\ \E r \in {Throw(MsgTimeout)} :
       \E h \in {handleChat(pstate[id], quota, db, id, r, r, now)} :
          /\ pstate' = [pstate EXCEPT ![id] = h.ps]
          /\ quota' = h.quota
          /\ lastCall' = [n |-> lastCall.n + 1, op |-> "chat", id |-> id,
                          kind |-> "chat", allowed |-> h.ok, reason |-> h.reason,
                          at |-> now, retried |-> h.retried]
    /\ UNCHANGED <<clockVars, registry, kvKeys, authExpired, providers, currentIndex,
                   lastScanAt, scan, disp, limits, db, refreshVars, storeVars,
                   streamVars, attemptVars, alertVars>>

CooldownNext ==
    \/ \E id \in Ids : AdmissionCheck(id, "chat")
    \/ \E id \in Ids : ChatAttempt(id)
    \/ \E id \in Ids : ChatTransportFailure(id)
    \/ \E id \in Ids : SearchAttempt(id)
    \/ QuotaTick

SpecCooldown == QuotaInit /\ [][CooldownNext]_vars

(***************************************************************************)
(* Properties of the cooldown specification.                               *)
(***************************************************************************)
\* the step is an attempt of account id
IsAttempt(id) ==
    /\ lastCall'.n = lastCall.n + 1
    /\ lastCall'.op \in {"chat", "search"}
    /\ lastCall'.id = id

\* C19 (as stated): each failed attempt sets retryAfterTs to a value strictly
\* greater than the one it had before the attempt, and each successful
\* attempt resets it to 0.
C19_CooldownStrictlyGrows ==
    [][\A id \in Ids :
          IsAttempt(id) =>
              IF lastCall'.allowed THEN pstate'[id].retryAfterTs = 0
              ELSE pstate'[id].retryAfterTs > pstate[id].retryAfterTs]_vars

\* C19 (amended): each failed attempt sets retryAfterTs to the time of the
\* failure plus errorCooldownMs, which is later than that time and not
\* earlier than the value before the attempt; each successful attempt resets
\* it to 0.
C19_CooldownFromFailureTime ==
    [][\A id \in Ids :
          IsAttempt(id) =>
              IF lastCall'.allowed THEN pstate'[id].retryAfterTs = 0
              ELSE /\ pstate'[id].retryAfterTs = now + errorCooldownMs
                   /\ pstate'[id].retryAfterTs > now
                   /\ pstate'[id].retryAfterTs >= pstate[id].retryAfterTs]_vars

\* an account failed, time went on, and a second attempt has just failed too
C19_Witness ==
    \E id \in Ids :
        /\ lastCall.op \in {"chat", "search"}
        /\ lastCall.id = id
        /\ ~lastCall.allowed
        /\ lastCall.n > 1
        /\ now > 0
        /\ pstate[id].retryAfterTs = now + errorCooldownMs

(***************************************************************************)
(* Additivity of the recording, in the quota specification.                *)
(***************************************************************************)
\* the audit count of a minute, account, kind and outcome: persisted, in the
\* batch in flight, or still buffered
recordedAudit(q, d, key) ==
    Get(d.request_audit_minute, key) + Get(q.inflight.audit, key)
        + Get(q.pendingAuditWrites, key)

usageKeys ==
    DOMAIN db.usage_stats \cup DOMAIN quota.inflight.usage
        \cup DOMAIN quota.pendingUsageWrites

\* C20: recording is additive.  Each incrementUsage call, and each
\* recordLimitHit call, adds exactly one to the count recorded for its date,
\* account and kind (a limit hit also to its audit row), and to no other;
\* a flush whose batch succeeds moves the buffered counts to the store and
\* loses or repeats none, however calls and flushes interleave.  So n calls
\* leave the persisted count n higher.
C20_RecordingIsAdditive ==
    [][LET isCall == lastCall'.n = lastCall.n + 1
           served == isCall /\ lastCall'.op = "chat" /\ lastCall'.allowed
           limited == isCall /\ lastCall'.op = "checkQuota" /\ ~lastCall'.allowed
           failed == isCall /\ lastCall'.op = "chat" /\ ~lastCall'.allowed
           dropped == quota.inflight.busy /\ ~quota'.inflight.busy /\ db' = db
           key == <<getBeijingDate(now), lastCall'.id, lastCall'.kind>>
           row == <<getBeijingMinuteBucket(now), lastCall'.id, lastCall'.kind,
                    <<"limited", lastCall'.reason>>>>
       IN  (~failed /\ ~dropped) =>
              /\ \A k \in usageKeys \cup usageKeys' :
                    recordedUsage(k[1], k[2], k[3])' =
                        recordedUsage(k[1], k[2], k[3])
                            + (IF (served \/ limited) /\ k = key THEN 1 ELSE 0)
              /\ limited => recordedAudit(quota', db', row) = recordedAudit(quota, db, row) + 1
              /\ (quota.inflight.busy /\ ~quota'.inflight.busy) =>
                    db'.usage_stats = MergeCounts(db.usage_stats, quota.inflight.usage)]_vars

\* two requests of an account were served and flushed: its count is 2
C20_Witness ==
    \E id \in Ids :
        /\ Get(db.usage_stats, <<getBeijingDate(now), id, "chat">>) = 2
        /\ PendingEmpty(quota)
        /\ ~quota.inflight.busy
        /\ lastCall.op = "chat"
        /\ lastCall.allowed

(***************************************************************************)
(* Further properties of the pool specification.                           *)
(***************************************************************************)
\* C21: every change of the pool's provider list is the end of a scan started
\* through forceRescan; no other operation replaces the list, so the list
\* never changes under a scan in flight.
C21_ListChangesOnlyByScan ==
    [][providers' # providers => (scan.pc \in {"build", "init"} /\ scan'.pc = "idle")]_vars

(***************************************************************************)
(* The attempt specification: one handleChatCompletion call of a           *)
(* QwenProvider, followed through its attemptRequest runs: the             *)
(* getValidCredentials of each run, the refreshToken calls it makes, and   *)
(* the upstream's answers.  The credential is known by its expiry_date.    *)
(***************************************************************************)
\* expires_in of a granted token, in ms: a minute, or an hour
GrantLifetimes == {MinuteMs, 60 * MinuteMs}

\* getValidCredentials refreshes a credential on or after expiry_date - 300000
needsRefreshLate(expiry_date, t) == expiry_date # 0 /\ t > expiry_date - refreshWindowMs

needsRefresh(expiry_date, t) == expiry_date # 0 /\ t >= expiry_date - refreshWindowMs

AttemptInit ==
    /\ ClockInit
    /\ registry = <<"A", "B">>
    /\ authExpired = [i \in Ids |-> FALSE]
    /\ PoolIdle
    /\ limits = [k \in Kinds |-> DefaultSearchLimits]
    /\ QuotaIdle
    /\ RefreshIdle
    /\ StreamIdle
    /\ AlertIdle
    /\ \E e \in {0, refreshWindowMs, refreshWindowMs + 1, refreshWindowMs + MinuteMs} :
          att = [IdleAttempt EXCEPT !.pc = "getValid", !.expiry_date = e]

\* attemptRequest: getValidCredentials loads the credential and calls
\* refreshToken on one that is about to expire; a forced run calls refreshToken
\* on what it got
GetValidCredentials ==
    /\ att.pc = "getValid"
    /\ \E r \in {needsRefresh(att.expiry_date, now)} :
          att' = [att EXCEPT !.checkedAt = now, !.checkedExpiry = att.expiry_date,
                             !.refreshed = r,
                             !.refreshes = IF r THEN @ + 1 ELSE @,
                             !.pc = IF r THEN "refresh"
                                    ELSE IF att.forceRefresh THEN "forced" ELSE "fetch"]
    /\ UNCHANGED <<clockVars, poolVars, quotaVars, refreshVars, storeVars, streamVars, alertVars>>

\* the refreshToken call of getValidCredentials, or the forced one, ends: with
\* a granted credential, or with a throw that ends the request
RefreshToken ==
    /\ att.pc \in {"refresh", "forcedRefresh"}
    /\ \/ \E life \in GrantLifetimes :
             att' = [att EXCEPT !.expiry_date = now + life,
                                !.pc = IF att.pc = "refresh" /\ att.forceRefresh
                                       THEN "forced" ELSE "fetch"]
       \/ att' = [att EXCEPT !.pc = "done", !.result = "AUTH_EXPIRED"]
    /\ UNCHANGED <<clockVars, poolVars, quotaVars, refreshVars, storeVars, streamVars, alertVars>>

\* attemptRequest(true): refreshToken is called on the credential in hand
ForcedRefresh ==
    /\ att.pc = "forced"
    /\ att' = [att EXCEPT !.pc = "forcedRefresh", !.refreshes = @ + 1]
    /\ UNCHANGED <<clockVars, poolVars, quotaVars, refreshVars, storeVars, streamVars, alertVars>>

\* the run's fetch ends: the upstream answers, and a 401 to the first run
\* starts the forced run; or the 60 s timer aborts the fetch
Fetch ==
    /\ att.pc = "fetch"
    /\ \/ \E status \in {200, 401, 500} :
             att' = IF status = 401 /\ ~att.forceRefresh
                    THEN [att EXCEPT !.pc = "getValid", !.forceRefresh = TRUE]
                    ELSE [att EXCEPT !.pc = "done",
                                     !.result = IF ResponseOk(status) THEN "ok"
                                                ELSE "upstream error"]
       \/ att' = [att EXCEPT !.pc = "done", !.result = "Upstream Timeout (60s)"]
    /\ UNCHANGED <<clockVars, poolVars, quotaVars, refreshVars, storeVars, streamVars, alertVars>>

\* time passes while the request awaits
AttemptTick ==
    /\ att.pc # "done"
    /\ events < MaxTicks
    /\ events' = events + 1
    /\ \E dt \in {1, MinuteMs} : now' = now + dt
    /\ UNCHANGED <<poolVars, quotaVars, refreshVars, storeVars, streamVars, attemptVars, alertVars>>

AttemptNext ==
    \/ GetValidCredentials
    \/ RefreshToken
    \/ ForcedRefresh
    \/ Fetch
    \/ AttemptTick

SpecAttempt == AttemptInit /\ [][AttemptNext]_vars

(***************************************************************************)
(* Properties of the attempt specification.                                *)
(***************************************************************************)
\* C22: within one handleChatCompletion call refreshToken is invoked at most
\* twice: the expiry-driven refresh and at most one forced refresh after a 401.
C22_AtMostTwoRefreshes == att.refreshes <= 2

\* C23: getValidCredentials calls refreshToken exactly when the credential has
\* a non-zero expiry_date and now >= expiry_date - 300000: at expiry_date =
\* now + 300000 it refreshes, at now + 300001 it does not, and a zero
\* expiry_date never triggers a refresh.
C23_RefreshWindow ==
    att.pc \in {"refresh", "forced", "fetch"} =>
        /\ att.refreshed <=>
              (att.checkedExpiry # 0 /\ att.checkedAt >= att.checkedExpiry - refreshWindowMs)
        /\ att.checkedExpiry = att.checkedAt + refreshWindowMs => att.refreshed
        /\ att.checkedExpiry = att.checkedAt + refreshWindowMs + 1 => ~att.refreshed
        /\ att.checkedExpiry = 0 => ~att.refreshed

\* a credential that expires in exactly 300000 ms was checked and is refreshed
C23_Witness ==
    /\ att.pc = "refresh"
    /\ att.checkedExpiry = att.checkedAt + refreshWindowMs
    /\ att.checkedExpiry = now + refreshWindowMs

\* C24: every failed chat attempt on an account (AUTH_EXPIRED, upstream 429,
\* upstream 5xx, transport error or timeout) leaves the account with
\* status = error and retryAfterTs = now + 15000.
C24_FailureMarksError ==
    [][\A id \in Ids :
          (IsAttempt(id) /\ lastCall'.op = "chat" /\ ~lastCall'.allowed)
              => /\ pstate'[id].status = "error"
                 /\ pstate'[id].retryAfterTs = now + errorCooldownMs]_vars


(***************************************************************************)
(* Expired accounts, in the pool specification.  authExpired never changes *)
(* in a behaviour: no account is authorized again.  An attempt of an       *)
(* expired account ends with AUTH_EXPIRED, thrown by the refresh request   *)
(* of refreshToken, and books one error:auth_expired audit row.            *)
(***************************************************************************)
RECURSIVE SumOver(_, _)
SumOver(f, S) ==
    IF S = {} THEN 0
    ELSE LET k == CHOOSE x \in S : TRUE
         IN f[k] + SumOver(f, S \ {k})

\* the attempts of the account that ended with AUTH_EXPIRED, over all minutes
authExpiredAudits(d, id) ==
    SumOver(d.request_audit_minute,
            {k \in DOMAIN d.request_audit_minute :
                k[2] = id /\ k[3] = "chat" /\ k[4] = <<"error", "auth_expired">>})

\* C25: AUTH_EXPIRED is terminal.  Once an attempt of an account has ended
\* with AUTH_EXPIRED, no later dispatch attempts the account and sends
\* another refresh request for it: its count of AUTH_EXPIRED attempts never
\* grows beyond one.
C25_AuthExpiredTerminal ==
    [][\A id \in Ids :
          authExpiredAudits(db, id) >= 1
              => authExpiredAudits(db', id) = authExpiredAudits(db, id)]_vars


(***************************************************************************)
(* The audit of an attempt, in the cooldown specification.                 *)
(***************************************************************************)
auditKeys(q, d) ==
    DOMAIN d.request_audit_minute \cup DOMAIN q.inflight.audit
        \cup DOMAIN q.pendingAuditWrites

\* C26: every handleChatCompletion invocation records exactly one audit
\* delta: the success row of its account and minute when the final answer is
\* 2xx, and otherwise exactly one error:<reason> row; no other audit row
\* changes.  An attempt whose first answer was 401 and whose retry after the
\* forced refresh was served so leaves the success row and no error row.
C26_OneAuditPerAttempt ==
    [][\A id \in Ids :
          (IsAttempt(id) /\ lastCall'.op = "chat") =>
              LET outcome == IF lastCall'.allowed THEN <<"success", "">>
                             ELSE <<"error", lastCall'.reason>>
                  row == <<getBeijingMinuteBucket(now), id, "chat", outcome>>
              IN /\ lastCall'.allowed <=> lastCall'.reason = "success"
                 /\ \A k \in auditKeys(quota, db) \cup auditKeys(quota', db') \cup {row} :
                       recordedAudit(quota', db', k) =
                           recordedAudit(quota, db, k) + (IF k = row THEN 1 ELSE 0)]_vars

\* an attempt got 401, was retried after the forced refresh and served, and
\* the account has its success row and no error row; and another attempt
\* failed and has its error row
C26_Witness ==
    \E id \in Ids, other \in Ids :
        /\ lastCall.op = "chat"
        /\ lastCall.id = id
        /\ lastCall.retried
        /\ lastCall.allowed
        /\ recordedAudit(quota, db,
               <<getBeijingMinuteBucket(now), id, "chat", <<"success", "">>>>) = 1
        /\ \A k \in auditKeys(quota, db) : k[2] = id => k[4] = <<"success", "">>
        /\ \E k \in auditKeys(quota, db) :
              k[2] = other /\ k[4][1] = "error" /\ recordedAudit(quota, db, k) = 1

(***************************************************************************)
(* The list under a walk, in the pool specification.                       *)
(***************************************************************************)
\* C27: a dispatch walk sees one whole snapshot of the pool, even if a rescan
\* or removeProvider replaces the list while the walk is suspended: no walk
\* indexes past the end of the list, and no walk visits the same account
\* twice.
C27_WalkSeesOneSnapshot ==
    \A d \in Dispatchers :
        /\ disp[d].result # "TypeError"
        /\ \A i, j \in 1..Len(disp[d].walk) :
              i # j => disp[d].walk[i].id # disp[d].walk[j].id

(***************************************************************************)
(* The concurrent specification: two requests of one instance walk a fixed *)
(* pool at the same time.  Each await of a walk (checkQuota, the account's *)
(* handleChatCompletion) is a point where the other request runs.          *)
(***************************************************************************)
ConcurrentNext ==
    \/ \E d \in Dispatchers : StartDispatch(d)
    \/ \E d \in Dispatchers : CheckQuota(d)
    \/ \E d \in Dispatchers : ProviderCall(d)

SpecConcurrent == PoolInit /\ [][ConcurrentNext]_vars

\* C28: no two dispatches of the same instance are inside handleChatCompletion
\* of the same account at the same time.
C28_OneDispatchPerAccount ==
    \A d \in Dispatchers, e \in Dispatchers :
        (d # e /\ disp[d].pc = "call" /\ disp[e].pc = "call")
            => disp[d].id # disp[e].id

(***************************************************************************)
(* The flush chain, in the quota specification.                            *)
(***************************************************************************)
\* the step issues a batch to the store
IssuesBatch ==
    /\ quota'.inflight.busy
    /\ ~(quota.inflight.busy /\ quota'.inflight = quota.inflight)

\* C29: the batches of buffered usage and audit writes reach the store in the
\* order their flushes were requested.  A batch is issued only for a requested
\* flush, only once every batch issued before it has been answered, and it
\* carries all that is buffered at that time; the store changes only by the
\* answer to the one batch in flight.
C29_FlushesInOrder ==
    [][/\ IssuesBatch =>
             /\ ~quota.inflight.busy
             /\ quota.flushChain > 0
             /\ quota'.flushChain = quota.flushChain
             /\ quota'.inflight.usage = quota.pendingUsageWrites
             /\ quota'.inflight.audit = quota.pendingAuditWrites
             /\ PendingEmpty(quota')
       /\ db' # db =>
             /\ quota.inflight.busy
             /\ ~quota'.inflight.busy
             /\ quota'.flushChain = quota.flushChain - 1
             /\ db'.usage_stats = MergeCounts(db.usage_stats, quota.inflight.usage)
             /\ db'.request_audit_minute =
                    MergeCounts(db.request_audit_minute, quota.inflight.audit)]_vars

\* an earlier batch has reached the store, a second one is in flight, and a
\* third flush, requested meanwhile, waits with its writes buffered
C29_Witness ==
    /\ DOMAIN db.usage_stats # {}
    /\ quota.inflight.busy
    /\ quota.flushChain >= 2
    /\ ~PendingEmpty(quota)

(***************************************************************************)
(* The search specification: MultiQwenProvider.handleWebSearch.  Search    *)
(* requests of one instance are served one at a time on a fresh pool, at   *)
(* one time.  The walk has the loop head of the chat walk and its own      *)
(* table of responses; the locals of a walk are kept in the dispatcher's   *)
(* record, as for chat.                                                    *)
(***************************************************************************)
\* the response after the search walk found no provider that returned
searchAggregateResult(dd) ==
    IF dd.triedCount = 0
    THEN IF dd.authExpiredCount = dd.availableProviders THEN "401 All providers unauthorized"
         ELSE IF dd.quotaBlockedCount = dd.availableProviders
         THEN "429 All providers quota limited"
         ELSE "503 No available providers"
    ELSE "500 All search providers failed"

\* the search loop from its head at dd.attempt up to the next await
RECURSIVE searchLoopHead(_, _, _, _)
searchLoopHead(dd, provs, pst, t) ==
    IF dd.attempt >= dd.availableProviders
    THEN [dd EXCEPT !.pc = "done", !.result = searchAggregateResult(dd)]
    ELSE LET providerIndex == (dd.startIndex + dd.attempt) % dd.availableProviders
         IN IF providerIndex + 1 > Len(provs)
            THEN [dd EXCEPT !.pc = "done", !.result = "TypeError"]
            ELSE LET id == provs[providerIndex + 1]
                     cool == ~canAttempt(pst[id], t)
                 IN IF skipCandidate(pst[id], dd.attempt, dd.availableProviders, t)
                    THEN searchLoopHead([dd EXCEPT !.attempt = @ + 1,
                                     !.walk = Append(@, [attempt |-> dd.attempt,
                                        id |-> id, cooldown |-> cool, step |-> "skip",
                                        status |-> 0, body |-> <<>>, reason |-> ""])],
                                  provs, pst, t)
                    ELSE [dd EXCEPT !.pc = "quota", !.providerIndex = providerIndex,
                                    !.id = id,
                                    !.walk = Append(@, [attempt |-> dd.attempt,
                                        id |-> id, cooldown |-> cool, step |-> "admit",
                                        status |-> 0, body |-> <<>>, reason |-> ""])]

\* what the upstream can answer to a search of an account
SearchOutcomes(expired) ==
    IF expired THEN FirstOutcomes(TRUE)
    ELSE {Resp(200, <<>>), Resp(401, <<>>), Resp(500, <<>>), Throw(MsgTimeout)}

SearchInit ==
    /\ ClockInit
    /\ registry \in Registries
    /\ \E e \in Expiries : authExpired = [i \in Ids |-> i \in e]
    /\ PoolIdle
    /\ \E r \in {0, MaxLimit} :
          limits = [chat |-> [daily |-> 0, rpm |-> 0], search |-> [daily |-> 0, rpm |-> r]]
    /\ QuotaIdle
    /\ RefreshIdle
    /\ StreamIdle
    /\ AttemptIdle
    /\ AlertIdle

\* a search request arrives at a fresh pool: the walk up to its first await
SearchStart(d) ==
    /\ disp[d].pc \in {"idle", "done"}
    /\ events < MaxEvents
    /\ events' = events + 1
    /\ ~ensureFreshPoolScans(now, lastScanAt)
    /\ disp' = [disp EXCEPT ![d] =
                  IF Len(providers) = 0
                  THEN [IdleDispatch EXCEPT !.pc = "done",
                                            !.result = "500 No Qwen providers configured"]
                  ELSE searchLoopHead([IdleDispatch EXCEPT
                                          !.availableProviders = Len(providers),
                                          !.startIndex = currentIndex],
                                      providers, pstate, now)]
    /\ UNCHANGED <<now, registry, kvKeys, authExpired, providers, currentIndex,
                   lastScanAt, scan, pstate, quotaVars, refreshVars, storeVars,
                   streamVars, attemptVars, alertVars>>

\* checkQuota(id, 'search') answers
SearchCheckQuota(d) ==
    /\ disp[d].pc = "quota"
    /\ \E dd \in {disp[d]} :
       \E r \in {checkQuota(quota, db, limits, dd.id, "search", now)} :
       \E f \in {awaitFlushChain(r.quota, db, TRUE)} :
          /\ quota' = f.quota
          /\ db' = f.db
          /\ IF r.allowed
             THEN /\ currentIndex' = advanceIndex(dd.attempt, dd.providerIndex,
                                                  dd.availableProviders, currentIndex)
                  /\ disp' = [disp EXCEPT ![d] =
                                [dd EXCEPT !.pc = "call", !.triedCount = @ + 1]]
             ELSE /\ currentIndex' = currentIndex
                  /\ disp' = [disp EXCEPT ![d] =
                                searchLoopHead([noteOutcome(dd, 0, <<>>, "limited")
                                                  EXCEPT !.quotaBlockedCount = @ + 1,
                                                         !.attempt = @ + 1],
                                               providers, pstate, now)]
    /\ UNCHANGED <<clockVars, registry, kvKeys, authExpired, providers,
                   lastScanAt, scan, pstate, limits, lastCall, admitted, refreshVars,
                   storeVars, streamVars, attemptVars, alertVars>>

\* the attempted account's handleWebSearch returns: its result, or, from its
\* catch block, the 500 response that carries the error; it never throws, and
\* the walk returns what it returned
SearchCall(d) ==
    /\ disp[d].pc = "call"
    /\ \E dd \in {disp[d]} :
       \E r1 \in SearchOutcomes(authExpired[dd.id]), payloadOk \in BOOLEAN :
       \E r2 \in IF r1.t = "resp" /\ r1.status = 401
                  THEN SecondOutcomes(authExpired[dd.id]) ELSE {r1} :
       \E h \in {handleWebSearch(pstate[dd.id], quota, db, dd.id, r1, r2, payloadOk, now)} :
       \E f \in {awaitFlushChain(h.quota, db, TRUE)} :
          /\ pstate' = [pstate EXCEPT ![dd.id] = h.ps]
          /\ quota' = f.quota
          /\ db' = f.db
          /\ disp' = [disp EXCEPT ![d] =
               [noteOutcome(dd, 0, <<>>, h.reason) EXCEPT
                   !.pc = "done",
                   !.result = IF h.ok THEN "ok" ELSE "500 search error"]]
    /\ UNCHANGED <<clockVars, registry, kvKeys, authExpired, providers, currentIndex,
                   lastScanAt, scan, limits, lastCall, admitted, refreshVars,
                   storeVars, streamVars, attemptVars, alertVars>>

SearchNext ==
    \/ \E d \in Serial : SearchStart(d)
    \/ \E d \in Serial : SearchCheckQuota(d)
    \/ \E d \in Serial : SearchCall(d)

SpecSearch == SearchInit /\ [][SearchNext]_vars

\* C30: the search dispatch follows the rotation skeleton of chat.  When the
\* attempted account's search fails, the pool goes on to the next candidate:
\* a search request is answered with an error only after every candidate of
\* the pool was skipped in cooldown, blocked at admission, or attempted and
\* failed.
C30_SearchErrorAfterAllCandidates ==
    \A d \in Dispatchers :
        (/\ disp[d].pc = "done"
         /\ disp[d].result \notin {"ok", "500 No Qwen providers configured"})
            => Len(disp[d].walk) = disp[d].availableProviders

(***************************************************************************)
(* Listing the blob store, in the pool specification.                      *)
(***************************************************************************)
\* the step is scanAndLoadProviders' read of the registry
IsScanRead == scan.pc = "read" /\ scan'.pc = "build"

\* C31: a pool scan lists the blob store only if it was requested in full
\* mode, which only an admin action does, or if both the registry and the
\* static list are empty: a scan in light mode, such as the one a dispatch
\* starts through ensureFreshPool, never lists the blob store while the
\* registry or the static list holds an account.
C31_ListsOnlyFullOrEmpty ==
    [][IsScanRead =>
          (needsFullScan(scan'.mode, scan'.registryIds)
              => \/ scan.mode = "full"
                 \/ Len(registry) = 0 /\ Len(staticAuthFiles) = 0)]_vars

(***************************************************************************)
(* The alert specification: runBusinessAlerts, run by the scheduled        *)
(* handler, one run at a time.  A run loads the state saved under          *)
(* alert_state_v1, evaluates the accounts whose authorization failed and   *)
(* the percentage of the daily quota in use, sends at most one webhook     *)
(* message per event, and saves the state.  A webhook send that fails      *)
(* throws out of the run, and so does a failed save: the state is then not *)
(* saved.                                                                  *)
(*   alert.state      the state under alert_state_v1                       *)
(*   alert.bad, alert.percent   what the latest run evaluated              *)
(*   alert.sends      the latest run's webhook sends: topic, level, ok     *)
(*   alert.completed  the latest run saved its state                       *)
(*   alert.quotaOpen  a run that reached its end delivered a quota ALERT,  *)
(*                    and none has delivered a RECOVERY since              *)
(***************************************************************************)
\* fingerprint(ids) of the sorted ids
fingerprint(bad) == KeepIn(IdOrder, bad)

\* percentages of the daily quota in use that a run can find
Percents == {alertThresholdPercent - 10, alertThresholdPercent - 3,
             alertThresholdPercent + 5}

recoveryThreshold ==
    IF alertThresholdPercent - recoveryMarginPercent < 1 THEN 1
    ELSE alertThresholdPercent - recoveryMarginPercent

\* Event 1: the message the run sends for provider_auth_expired
authMessage(prev, bad) ==
    IF bad # {} /\ (~prev.active \/ prev.fingerprint # fingerprint(bad)) THEN "ALERT"
    ELSE IF bad = {} /\ prev.active THEN "RECOVERY"
    ELSE "none"

\* Event 2: the message the run sends for global_quota_80
quotaMessage(prev, percent) ==
    IF percent >= alertThresholdPercent /\ ~prev.active THEN "ALERT"
    ELSE IF ~(percent >= alertThresholdPercent) /\ prev.active
              /\ percent < recoveryThreshold THEN "RECOVERY"
    ELSE "none"

\* one run: the state it leaves under alert_state_v1, its sends, and whether
\* it reached the end
runBusinessAlerts(state, bad, percent, authOk, quotaOk, putOk) ==
    LET authMsg == authMessage(state.auth, bad)
        quotaMsg == quotaMessage(state.quota, percent)
        authSend == IF authMsg = "none" THEN <<>>
                    ELSE <<[topic |-> "auth", level |-> authMsg, ok |-> authOk]>>
        quotaSend == IF quotaMsg = "none" THEN <<>>
                     ELSE <<[topic |-> "quota", level |-> quotaMsg, ok |-> quotaOk]>>
        newState == [auth |-> [active |-> bad # {}, fingerprint |-> fingerprint(bad)],
                     quota |-> [active |-> percent >= alertThresholdPercent,
                                fingerprint |-> <<"undefined">>]]
    IN IF authMsg # "none" /\ ~authOk
       THEN [state |-> state, sends |-> authSend, completed |-> FALSE]
       ELSE IF quotaMsg # "none" /\ ~quotaOk
       THEN [state |-> state, sends |-> authSend \o quotaSend, completed |-> FALSE]
       ELSE [state |-> IF putOk THEN newState ELSE state,
             sends |-> authSend \o quotaSend, completed |-> putOk]

\* the run delivered the message of that topic and level
Delivered(sends, topic, level) ==
    \E i \in 1..Len(sends) :
        sends[i].topic = topic /\ sends[i].level = level /\ sends[i].ok

\* the run tried to send a message of that topic and failed
FailedSend(sends, topic) ==
    \E i \in 1..Len(sends) : sends[i].topic = topic /\ ~sends[i].ok

AlertInit ==
    /\ ClockInit
    /\ registry \in Registries
    /\ authExpired = [i \in Ids |-> FALSE]
    /\ PoolIdle
    /\ limits = [k \in Kinds |-> DefaultSearchLimits]
    /\ QuotaIdle
    /\ RefreshIdle
    /\ StreamIdle
    /\ AttemptIdle
    /\ AlertIdle

\* the scheduled handler runs runBusinessAlerts
AlertTick ==
    /\ alert.ticks < MaxAlertTicks
    /\ \E bad \in SUBSET Ids, percent \in Percents :
       \E authOk \in BOOLEAN, quotaOk \in BOOLEAN, putOk \in BOOLEAN :
       \E r \in {runBusinessAlerts(alert.state, bad, percent, authOk, quotaOk, putOk)} :
          alert' = [state |-> r.state, bad |-> bad, percent |-> percent,
                    sends |-> r.sends, completed |-> r.completed,
                    quotaOpen |-> IF ~r.completed THEN alert.quotaOpen
                                  ELSE IF Delivered(r.sends, "quota", "ALERT") THEN TRUE
                                  ELSE IF Delivered(r.sends, "quota", "RECOVERY") THEN FALSE
                                  ELSE alert.quotaOpen,
                    ticks |-> alert.ticks + 1]
    /\ UNCHANGED <<clockVars, poolVars, quotaVars, refreshVars, storeVars, streamVars,
                   attemptVars>>

AlertNext == AlertTick

SpecAlerts == AlertInit /\ [][AlertNext]_vars

\* C32: the daily-quota alert.  After an ALERT has been delivered, the first
\* run that finds percent < threshold - 5 delivers a RECOVERY, whatever
\* percentages the runs in between found, those in [threshold - 5, threshold)
\* included.  Stated for runs that reach their end, the one that delivered
\* the ALERT too.
C32_RecoveryBelowMargin ==
    [][(/\ alert'.ticks = alert.ticks + 1
        /\ alert'.completed
        /\ alert.quotaOpen
        /\ alert'.percent < alertThresholdPercent - recoveryMarginPercent)
            => Delivered(alert'.sends, "quota", "RECOVERY")]_vars

\* C33: the auth-failed alert.  A run delivers an ALERT only if the set of
\* failing accounts became non-empty or changed since the run before, or if
\* the run before failed to send its auth message; it delivers a RECOVERY
\* only if the set became empty; a run whose sends all succeed delivers the
\* message of every such transition.  So no transition is notified twice,
\* also when a webhook send of the same or of the run before failed.
C33_AuthTransitionsOnce ==
    [][alert'.ticks = alert.ticks + 1 =>
          LET changed == alert'.bad # {} /\ alert'.bad # alert.bad
              cleared == alert'.bad = {} /\ alert.bad # {}
              pending == FailedSend(alert.sends, "auth")
          IN /\ Delivered(alert'.sends, "auth", "ALERT") => (changed \/ pending)
             /\ Delivered(alert'.sends, "auth", "RECOVERY") => (cleared \/ pending)
             /\ (changed /\ alert.completed /\ ~FailedSend(alert'.sends, "auth"))
                    => Delivered(alert'.sends, "auth", "ALERT")]_vars

(***************************************************************************)
(* Termination of a request, in the attempt specification.  The steps the  *)
(* instance takes by itself are taken; the chat fetch ends, at the latest  *)
(* when its 60 s timer aborts it.  The POST of refreshToken carries no     *)
(* abort signal: it ends only if the token endpoint answers, so no         *)
(* fairness is assumed of RefreshToken.                                    *)
(***************************************************************************)
SpecAttemptLive ==
    /\ AttemptInit
    /\ [][AttemptNext]_vars
    /\ WF_vars(GetValidCredentials)
    /\ WF_vars(ForcedRefresh)
    /\ WF_vars(Fetch)

\* C34: every upstream HTTP call made during a dispatch is bounded by an abort
\* deadline, so every handleChatCompletion call ends, with a response or an
\* error, even if an upstream endpoint never answers.
C34_AttemptTerminates == <>(att.pc = "done")

(***************************************************************************)
(* The age of the usage cache, in the quota specification.                 *)
(***************************************************************************)
\* C35: checkQuota never decides on a daily count older than the cache's 5 s
\* lifetime.  Once usageCacheTtlMs have passed since an account's usage was
\* last loaded from the store, the next checkQuota loads it again, however
\* many incrementUsage, recordFailure or recordLimitHit calls merged deltas
\* into the cache in the meantime.
C35_ReloadsAfterTtl ==
    [][\A id \in Ids :
          (/\ lastCall'.n = lastCall.n + 1
           /\ lastCall'.op = "checkQuota"
           /\ lastCall'.id = id
           /\ quota.usageCache[id].loadedAt >= 0
           /\ now - quota.usageCache[id].loadedAt >= usageCacheTtlMs)
              => quota'.usageCache[id].loadedAt = now]_vars

(***************************************************************************)
(* The rpm limit under concurrent requests, in the quota specification.    *)
(* admitted[id] counts the chat requests of the account that checkQuota    *)
(* let through and whose attempt has not ended; in the first minute they   *)
(* were all admitted in that minute.                                       *)
(***************************************************************************)
\* C36: within one instance and one minute, the attempts that checkQuota
\* admits for an account and kind never exceed the configured rpm limit when
\* that limit is > 0, for any interleaving of concurrent requests.  Stated of
\* the chat requests admitted in the first minute and still in flight.
C36_AdmittedWithinRpm ==
    \A id \in Ids :
        (limits.chat.rpm > 0 /\ getBeijingMinuteBucket(now) = getBeijingMinuteBucket(0))
            => admitted[id] <= limits.chat.rpm

(***************************************************************************)
(* The waiter of a refresh, in the refresh specification.                  *)
(***************************************************************************)
\* C37: if the lock holder's refresh succeeds and saves the new credential
\* while another caller is waiting in waitForTokenUpdate, the waiter returns
\* a credential and does not time out, also when the token endpoint's answer
\* carried no new refresh_token, so that the stored refresh token is the old
\* one.
C37_WaiterSeesUpdate ==
    \A c \in Callers :
        (rf[c].pc = "done" /\ rf[c].updated) => rf[c].result.kind = "credential"

(***************************************************************************)
(* The scan a manual rescan awaits, in the pool specification.             *)
(***************************************************************************)
\* C38: every manualRescan('full') has a full scan, one that lists the blob
\* store, complete before it returns, also when a light scan was in flight
\* at the call: the scan whose end the call awaits lists the blob store.
C38_FullRescanLists ==
    (scan.pc = "build" /\ scan.awaited = "full")
        => needsFullScan(scan.mode, scan.registryIds)

(***************************************************************************)
(* The alias handler against a refresh, in the store specification.  The   *)
(* credential of the model carries the tokens only: a request that changes *)
(* nothing but the alias leaves the entry of the model as it is.           *)
(***************************************************************************)
IsPatchWrite == patch.pc = "write" /\ patch'.pc = "idle"

\* C39: the alias rename changes only the alias of the stored credential:
\* whatever refresh runs beside it, the tokens under the account's key after
\* the handler's write are those the key held before the write, the ones of
\* the most recent refresh.
C39_RenameKeepsTokens ==
    [][(IsPatchWrite /\ patch.id = "canonical" /\ stored # NoCredential)
          => stored' = stored]_vars

(***************************************************************************)
(* The delete of releaseLock, in the refresh specification.                *)
(***************************************************************************)
IsReleaseDelete(c) == rf[c].pc = "releaseDelete" /\ rf'[c].pc = "done"

\* C40: releaseLock(name, token) never deletes a lock entry whose value at the
\* delete is another holder's token, however its read and its delete
\* interleave with the entry's expiry and with another caller's acquireLock:
\* the entry it deletes is its own or already gone.
C40_ReleaseDeletesOwnEntry ==
    [][\A c \in Callers :
          IsReleaseDelete(c) => lockEntry \in {NoLock, rf[c].lockToken}]_vars

====
